---- MODULE Spec2Model ----
(***************************************************************************)
(* Discovery orchestration pipeline of core/discovery_engine.py:           *)
(* AdvancedDiscoveryEngine (investigation registry, collection in parallel *)
(* and sequential mode, cancellation) and the aggregation and ranking      *)
(* stage (_remove_duplicates, _calculate_relevance_scores,                 *)
(* _post_process_results).                                                 *)
(*                                                                         *)
(* Text is modelled as a sequence of one-character strings, so that        *)
(* str.lower, str.strip, str.split and the f-string concatenation of       *)
(* _remove_duplicates are computed character by character.  Floating-point *)
(* scores are fixed-point integers: confidence in hundredths, relevance in *)
(* thousandths (0.3 is 300, a confidence of 0.5 is 50 and adds 150).       *)
(* Time is an integer number of days.                                      *)
(***************************************************************************)
EXTENDS Integers, Sequences, FiniteSets, Bags, TLC

VARIABLES
    now,                    \* datetime.now(), in days
    active_investigations,  \* AdvancedDiscoveryEngine.active_investigations
    calls,                  \* one entry per call of comprehensive_discovery
    raw_results,            \* ranking harness: the list given to _post_process_results
    rank_strategy,          \* ranking harness: the strategy given with it
    ranked,                 \* ranking harness: what the first application returned
    reranked,               \* ranking harness: what re-applying it to `ranked` returned
    rank_pc,                \* ranking harness: "input", "ranked" or "reranked"
    hash_seed,              \* planning: the interpreter's string-hash seed (PYTHONHASHSEED)
    analyses,               \* planning: what the calls of analyze_target_and_strategize returned
    plan_target,            \* planning: the target given to _create_discovery_strategy
    planned,                \* planning: the strategy it returned
    personnel_data,         \* analysis: the list given to analyze_personnel_structure
    personnel_analysis,     \* analysis: what it returned
    email_analyses,         \* analysis: what the calls of _analyze_emails returned
    clock,                  \* rate limiting: time.time(), in seconds
    request_history,        \* RateLimiter.request_history
    last_request_time,      \* RateLimiter.last_request_time
    sleeping,               \* rate limiting: the calls suspended in asyncio.sleep
    returned_at,            \* rate limiting: per source, when its calls returned
    classifications,        \* analysis: what the calls of classify_business_type returned
    batch_analyses,         \* analysis: how the calls of analyze_intelligence_batch ended
    proxies,                \* ProxyManager.proxies
    working_proxies,        \* ProxyManager.working_proxies, as positions in `proxies`
    current_proxy_index,    \* ProxyManager.current_proxy_index
    rotation_strategy,      \* ProxyManager.rotation_strategy
    last_health_check,      \* ProxyManager.last_health_check: 0 before the first health check
    got_proxy,              \* proxies: what get_proxy returned, when it was the last operation
    last_cleanup            \* the last call of cleanup_old_investigations: its argument and what it returned

engine_vars == <<active_investigations, calls>>
rank_vars == <<raw_results, rank_strategy, ranked, reranked, rank_pc>>
plan_vars == <<hash_seed, analyses, plan_target, planned>>
analyzer_vars == <<personnel_data, personnel_analysis, email_analyses>>
limiter_vars == <<clock, request_history, last_request_time, sleeping, returned_at>>
intelligence_vars == <<classifications, batch_analyses>>
proxy_vars ==
    <<proxies, working_proxies, current_proxy_index, rotation_strategy, last_health_check,
      got_proxy>>
cleanup_vars == <<last_cleanup>>

\* The variables of the planner, the analyzers, the rate limiter and the
\* proxy manager
side_vars ==
    <<plan_vars, analyzer_vars, limiter_vars, intelligence_vars, proxy_vars, cleanup_vars>>

vars == <<now, engine_vars, rank_vars, side_vars>>

----------------------------------------------------------------------------
(* Text helpers: Python's str methods on sequences of characters.          *)

\* An Optional value is None or Some(v)
None == <<>>

Some(v) == <<v>>

\* The planner, the analyzers and the rate limiter before any use
PlanOff == hash_seed = 0 /\ analyses = <<>> /\ plan_target = None /\ planned = None

AnalyzerOff ==
    /\ personnel_data = <<>>
    /\ personnel_analysis = None
    /\ email_analyses = <<>>

LimiterOff ==
    /\ clock = 0
    /\ request_history = <<>>
    /\ last_request_time = <<>>
    /\ sleeping = EmptyBag
    /\ returned_at = <<>>

IntelligenceOff == classifications = <<>> /\ batch_analyses = <<>>

ProxyOff ==
    /\ proxies = <<>>
    /\ working_proxies = <<>>
    /\ current_proxy_index = 0
    /\ rotation_strategy = "round_robin"
    /\ last_health_check = 0
    /\ got_proxy = <<>>

CleanupOff == last_cleanup = None

Min2(a, b) == IF a <= b THEN a ELSE b

SetMin(S) == CHOOSE x \in S : \A y \in S : x <= y

SetMax(S) == CHOOSE x \in S : \A y \in S : y <= x

\* str.isspace for one character
IsSpace(c) == c \in {" ", "\t"}

\* A string as the sequence of its characters
chars(s) == [i \in 1..Len(s) |-> SubSeq(s, i, i)] \o <<>>

UpperCase == chars("ABCDEFGHIJKLMNOPQRSTUVWXYZ")
LowerCase == chars("abcdefghijklmnopqrstuvwxyz")
Digits == chars("0123456789")

\* str.lower for one character
lower_char(c) ==
    IF \E i \in 1..Len(UpperCase) : UpperCase[i] = c
    THEN LowerCase[CHOOSE i \in 1..Len(UpperCase) : UpperCase[i] = c]
    ELSE c

\* str.lower()
lower(s) == [i \in 1..Len(s) |-> lower_char(s[i])]

\* str.strip(): leading and trailing whitespace removed
strip(s) ==
    LET solid == {i \in 1..Len(s) : ~IsSpace(s[i])}
    IN  IF solid = {} THEN <<>> ELSE SubSeq(s, SetMin(solid), SetMax(solid))

\* set(str.split()): the maximal runs of non-whitespace characters
split_words(s) ==
    LET n == Len(s)
        run(a, b) == /\ \A i \in a..b : ~IsSpace(s[i])
                     /\ (a = 1 \/ IsSpace(s[a - 1]))
                     /\ (b = n \/ IsSpace(s[b + 1]))
    IN  {SubSeq(s, a, b) : <<a, b>> \in {p \in (1..n) \X (1..n) : p[1] <= p[2] /\ run(p[1], p[2])}}

----------------------------------------------------------------------------
(* Aggregation and ranking.                                                *)

\* limit_map of _post_process_results and the default of limit_map.get
LimitImmediate == 50
LimitStandard == 200
LimitComprehensive == 1000
LimitDefault == 200

\* timedelta(days=30) of _calculate_relevance_scores
RecentDays == 30

\* The weights of _calculate_relevance_scores, in thousandths; ConfidenceWeight
\* multiplies a confidence given in hundredths.
KeywordWeight == 300
GeographicWeight == 200
PriorityBoost == 500
ConfidenceWeight == 3
RecentBoost == 100
ScoreCap == 1000

\* identifier = f"{result.data_type}:{result.value.lower().strip()}"
identifier(result) == result.data_type \o <<":">> \o strip(lower(result.value))

\* Mutant of _remove_duplicates: an entry is dropped only when it repeats the
\* identifier of the entry right before it.
_remove_duplicates_adjacent(results) ==
    LET n == Len(results)
        ident == [i \in 1..n |-> identifier(results[i])] \o <<>>
        kept == SelectSeq([i \in 1..n |-> i], LAMBDA i : i = 1 \/ ident[i - 1] # ident[i])
    IN  [p \in 1..Len(kept) |-> results[kept[p]]] \o <<>>

\* Mutant of _remove_duplicates: the last entry of each identifier is kept
\* instead of the first.
_remove_duplicates_keep_last(results) ==
    LET n == Len(results)
        ident == [i \in 1..n |-> identifier(results[i])] \o <<>>
        kept == SelectSeq([i \in 1..n |-> i],
                          LAMBDA i : \A j \in (i + 1)..n : ident[j] # ident[i])
    IN  [p \in 1..Len(kept) |-> results[kept[p]]] \o <<>>

\* _remove_duplicates: the loop keeps results[i] exactly when its identifier
\* is not in `seen`, and `seen` then holds the identifiers of results[1..i-1].
\* (Appending <<>> makes TLC evaluate the sequence once instead of per use.)
_remove_duplicates(results) ==
    LET n == Len(results)
        ident == [i \in 1..n |-> identifier(results[i])] \o <<>>
        in_seen(i) == \E j \in 1..(i - 1) : ident[j] = ident[i]
        kept == SelectSeq([i \in 1..n |-> i], LAMBDA i : ~in_seen(i))
    IN  [p \in 1..Len(kept) |-> results[kept[p]]] \o <<>>

\* Mutant of relevance_of: the keyword and geographic terms count the
\* fraction of the words matched, not their number
relevance_of_by_fraction(result, strategy, today) ==
    LET target_keywords == {lower(strategy.search_keywords[k]) :
                               k \in 1..Len(strategy.search_keywords)}
        geographic_terms == {lower(w) : w \in split_words(strategy.target.geographic_focus)}
        value_words == split_words(lower(result.value))
        fraction(weight, matched, all) ==
            IF all = {} THEN 0 ELSE (weight * Cardinality(matched)) \div Cardinality(all)
        score == fraction(KeywordWeight, target_keywords \cap value_words, target_keywords)
                 + fraction(GeographicWeight, geographic_terms \cap value_words, geographic_terms)
                 + (IF result.data_type \in strategy.target.priority_data
                    THEN PriorityBoost ELSE 0)
                 + result.confidence * ConfidenceWeight
                 + (IF result.timestamp # None /\ result.timestamp[1] > today - RecentDays
                    THEN RecentBoost ELSE 0)
    IN  Min2(score, ScoreCap)

\* The score of one result in _calculate_relevance_scores
relevance_of(result, strategy, today) ==
    LET target_keywords == {lower(strategy.search_keywords[k]) :
                               k \in 1..Len(strategy.search_keywords)}
        geographic_terms == {lower(w) : w \in split_words(strategy.target.geographic_focus)}
        value_words == split_words(lower(result.value))
        keyword_matches == Cardinality(target_keywords \cap value_words)
        geographic_matches == Cardinality(geographic_terms \cap value_words)
        score == keyword_matches * KeywordWeight
                 + geographic_matches * GeographicWeight
                 + (IF result.data_type \in strategy.target.priority_data
                    THEN PriorityBoost ELSE 0)
                 + result.confidence * ConfidenceWeight
                 + (IF result.timestamp # None /\ result.timestamp[1] > today - RecentDays
                    THEN RecentBoost ELSE 0)
    IN  Min2(score, ScoreCap)

\* _calculate_relevance_scores: relevance_score is assigned on every result
_calculate_relevance_scores(results, strategy, today) ==
    [i \in 1..Len(results) |->
        [results[i] EXCEPT !.relevance_score = relevance_of(results[i], strategy, today)]]
    \o <<>>

\* The sort key (x.relevance_score, x.confidence), compared as Python tuples
KeyGreater(a, b) ==
    \/ a.relevance_score > b.relevance_score
    \/ a.relevance_score = b.relevance_score /\ a.confidence > b.confidence

KeyEqual(a, b) ==
    a.relevance_score = b.relevance_score /\ a.confidence = b.confidence

\* Mutant of sorted_reverse: an ascending sort that is then reversed, which
\* puts entries with equal keys in the opposite of their original order.
sorted_then_reversed(results) ==
    LET n == Len(results)
        place == [i \in 1..n |->
                    1 + Cardinality({j \in 1..n : KeyGreater(results[j], results[i])})
                      + Cardinality({j \in (i + 1)..n : KeyEqual(results[j], results[i])})]
                 \o <<>>
        at == [p \in 1..n |-> CHOOSE i \in 1..n : place[i] = p]
    IN  [p \in 1..n |-> results[at[p]]] \o <<>>

\* sorted(..., key=..., reverse=True): descending, and stable (entries with
\* equal keys keep their order).  Entry i goes to the place after every entry
\* with a greater key and every earlier entry with an equal key.
sorted_reverse(results) ==
    LET n == Len(results)
        place == [i \in 1..n |->
                    1 + Cardinality({j \in 1..n : KeyGreater(results[j], results[i])})
                      + Cardinality({j \in 1..(i - 1) : KeyEqual(results[j], results[i])})]
                 \o <<>>
        at == [p \in 1..n |-> CHOOSE i \in 1..n : place[i] = p]
    IN  [p \in 1..n |-> results[at[p]]] \o <<>>

\* Mutant of limit_of: limit_map without its 'comprehensive' entry
limit_of_without_comprehensive(urgency_level) ==
    CASE urgency_level = "immediate" -> LimitImmediate
      [] urgency_level = "standard" -> LimitStandard
      [] OTHER -> LimitDefault

\* limit = limit_map.get(strategy.target.urgency_level, 200)
limit_of(urgency_level) ==
    CASE urgency_level = "immediate" -> LimitImmediate
      [] urgency_level = "standard" -> LimitStandard
      [] urgency_level = "comprehensive" -> LimitComprehensive
      [] OTHER -> LimitDefault

\* sorted_results[:limit]
head(results, limit) == SubSeq(results, 1, Min2(Len(results), limit))

\* _post_process_results
_post_process_results(results, strategy, today) ==
    IF results = <<>> THEN <<>>
    ELSE LET unique_results == _remove_duplicates(results)
             scored_results == _calculate_relevance_scores(unique_results, strategy, today)
             sorted_results == sorted_reverse(scored_results)
         IN  head(sorted_results, limit_of(strategy.target.urgency_level))

----------------------------------------------------------------------------
(* Ranking harness: _post_process_results applied to a bounded family of   *)
(* result lists and strategies, then applied again to its own output.      *)

\* Longest result list enumerated entry by entry
MaxBase == 3

\* datetime.now() during the ranking runs
RankNow == 40

IntelligenceResult(id, data_type, value, confidence, timestamp) ==
    [id |-> id, data_type |-> data_type, value |-> value, confidence |-> confidence,
     timestamp |-> timestamp, relevance_score |-> 0]

\* The newest timestamp that is not "recent", and the oldest that is
StaleDay == RankNow - RecentDays
FreshDay == StaleDay + 1

\* Results the enumerated lists are built from: values differing in case and
\* surrounding whitespace, data types differing in case, a data type ending
\* in ':' against a value starting with ':', confidences below 0 and above 1,
\* missing, stale and fresh timestamps.
ResultUniverse ==
    { IntelligenceResult(1, <<"e">>, <<"A", "b">>, 50, None),
      IntelligenceResult(2, <<"e">>, <<"a", "b", " ">>, 90, Some(FreshDay)),
      IntelligenceResult(3, <<"e">>, <<"a", " ", "r">>, 50, Some(StaleDay)),
      IntelligenceResult(4, <<"E">>, <<"a", "b">>, 50, None),
      IntelligenceResult(5, <<"e", ":">>, <<"b">>, 0, None),
      IntelligenceResult(6, <<"e">>, <<":", "b">>, 100, None),
      IntelligenceResult(7, <<"p">>, <<"b">>, -100, None),
      IntelligenceResult(8, <<"p">>, <<"\t", "B", " ", "a", " ", "r">>, 400, Some(FreshDay)) }

DigitChar(d) == <<"0", "1", "2", "3", "4", "5", "6", "7", "8", "9">>[d + 1]

\* Filler results with pairwise different values, for lists longer than a limit
Filler(i) ==
    IntelligenceResult(100 + i, <<"e">>,
                       <<"x", DigitChar((i \div 1000) % 10), DigitChar((i \div 100) % 10),
                         DigitChar((i \div 10) % 10), DigitChar(i % 10)>>,
                       (i * 37) % 101,
                       IF i % 2 = 0 THEN None ELSE Some(FreshDay))

Fill(k) == [i \in 1..k |-> Filler(i)] \o <<>>

SeqsUpTo(S, n) == UNION {[1..k -> S] : k \in 0..n}

Urgencies == {"immediate", "standard", "comprehensive"}

\* A strategy as _post_process_results reads it
RankStrategy(search_keywords, geographic_focus, priority_data, urgency_level) ==
    [search_keywords |-> search_keywords,
     target |-> [geographic_focus |-> geographic_focus,
                 priority_data |-> priority_data,
                 urgency_level |-> urgency_level]]

FocusedStrategy(urgency_level) ==
    RankStrategy(<< <<"a">>, <<"B">> >>, <<"R", " ", "x">>, {<<"e">>}, urgency_level)

\* urgency "urgent" is not a key of limit_map
RankStrategies ==
    {FocusedStrategy(u) : u \in Urgencies \cup {"urgent"}}
    \cup {RankStrategy(<<>>, <<"g">>, {}, "standard")}

\* Two entries with the same identifier and the lowest score of their list
LowPair ==
    << IntelligenceResult(7, <<"p">>, <<"b">>, -100, None),
       IntelligenceResult(9, <<"p">>, <<" ", "B">>, -100, None) >>

RankInputs ==
    {[results |-> rs, strategy |-> st] : rs \in SeqsUpTo(ResultUniverse, MaxBase),
                                         st \in RankStrategies}
    \cup {[results |-> prefix \o Fill(limit_of(u) + extra), strategy |-> FocusedStrategy(u)] :
             prefix \in {<<>>, LowPair}, extra \in {0, 1}, u \in Urgencies}

RankInit ==
    /\ now = RankNow
    /\ active_investigations = <<>>
    /\ calls = <<>>
    /\ \E input \in RankInputs :
          /\ raw_results = input.results
          /\ rank_strategy = input.strategy
    /\ ranked = <<>>
    /\ reranked = <<>>
    /\ rank_pc = "input"
    /\ PlanOff /\ AnalyzerOff /\ LimiterOff /\ IntelligenceOff /\ ProxyOff /\ CleanupOff

\* results = await self._post_process_results(all_results, strategy)
Rank ==
    /\ rank_pc = "input"
    /\ ranked' = _post_process_results(raw_results, rank_strategy, now)
    /\ rank_pc' = "ranked"
    /\ UNCHANGED <<now, active_investigations, calls, raw_results, rank_strategy, reranked, side_vars>>

\* the same call on the list the first call returned
Rerank ==
    /\ rank_pc = "ranked"
    /\ reranked' = _post_process_results(ranked, rank_strategy, now)
    /\ rank_pc' = "reranked"
    /\ UNCHANGED <<now, active_investigations, calls, raw_results, rank_strategy, ranked, side_vars>>

RankNext == Rank \/ Rerank

SpecRank == RankInit /\ [][RankNext]_vars

----------------------------------------------------------------------------
(* Strategy planning, as far as collection reads it.                       *)

\* class TargetType
TargetType ==
    {"people_group", "business_category", "service_providers", "professional_category",
     "domain_entity", "person_individual", "topic_research", "mixed_intelligence"}

\* The keys of self.collectors
Collectors ==
    {"search_engines", "social_media", "business_directories", "job_portals",
     "specialized_tools"}

\* Mutant of _select_collection_methods: search depth is not looked at
select_methods_by_type_only(target_type, search_depth) ==
    {"search_engines"}
    \cup (IF target_type \in {"people_group", "professional_category"}
          THEN {"social_media", "job_portals"} ELSE {})
    \cup (IF target_type \in {"business_category", "service_providers"}
          THEN {"business_directories", "social_media"} ELSE {})
    \cup (IF target_type = "domain_entity" THEN {"specialized_tools"} ELSE {})

\* _select_collection_methods, before list(set(methods))
_select_collection_methods(target_type, search_depth) ==
    {"search_engines"}
    \cup (IF target_type \in {"people_group", "professional_category"}
          THEN {"social_media", "job_portals"} ELSE {})
    \cup (IF target_type \in {"business_category", "service_providers"}
          THEN {"business_directories", "social_media"} ELSE {})
    \cup (IF target_type = "domain_entity" THEN {"specialized_tools"} ELSE {})
    \cup (IF search_depth = "comprehensive" THEN {"specialized_tools"} ELSE {})

\* list(set(methods)): the iteration order of a set of strings is any order
\* (it follows the strings' hashes, which differ from run to run)
ListsOfSet(S) ==
    {order \in [1..Cardinality(S) -> S] :
        \A i, j \in 1..Cardinality(S) : i # j => order[i] # order[j]}

\* Mutant of _calculate_source_priorities: the target type adjusts nothing
source_priorities_by_context_only(target_type, context) ==
    LET base == [m \in Collectors |->
                    CASE m = "search_engines" -> 10
                      [] m = "social_media" -> 8
                      [] m = "business_directories" -> 7
                      [] m = "job_portals" -> 6
                      [] m = "specialized_tools" -> 5]
    IN  IF context = "recruitment"
        THEN [base EXCEPT !["job_portals"] = 10, !["social_media"] = 9]
        ELSE IF context = "lead_generation"
             THEN [base EXCEPT !["business_directories"] = 10, !["search_engines"] = 9]
             ELSE base

\* _calculate_source_priorities
_calculate_source_priorities(target_type, context) ==
    LET base == [m \in Collectors |->
                    CASE m = "search_engines" -> 10
                      [] m = "social_media" -> 8
                      [] m = "business_directories" -> 7
                      [] m = "job_portals" -> 6
                      [] m = "specialized_tools" -> 5]
        by_type ==
            IF target_type \in {"people_group", "professional_category"}
            THEN [base EXCEPT !["social_media"] = 10, !["job_portals"] = 9]
            ELSE IF target_type \in {"business_category", "service_providers"}
                 THEN [base EXCEPT !["business_directories"] = 10, !["search_engines"] = 9]
                 ELSE base
    IN  IF context = "recruitment"
        THEN [by_type EXCEPT !["job_portals"] = 10, !["social_media"] = 9]
        ELSE IF context = "lead_generation"
             THEN [by_type EXCEPT !["business_directories"] = 10, !["search_engines"] = 9]
             ELSE by_type

\* total_time_map of _calculate_time_allocation, in minutes, and the default
\* of total_time_map.get
TotalTimeImmediate == 15
TotalTimeStandard == 30
TotalTimeComprehensive == 60
TotalTimeDefault == 30

total_time_of(urgency_level) ==
    CASE urgency_level = "immediate" -> TotalTimeImmediate
      [] urgency_level = "standard" -> TotalTimeStandard
      [] urgency_level = "comprehensive" -> TotalTimeComprehensive
      [] OTHER -> TotalTimeDefault

\* _calculate_time_allocation: total_time // len(methods) for every method
_calculate_time_allocation(urgency_level, methods) ==
    LET time_per_method == total_time_of(urgency_level) \div Len(methods)
    IN  [m \in {methods[k] : k \in 1..Len(methods)} |-> time_per_method]

\* The keywords, geographic focus and priority data every planned strategy of
\* the model carries: keywords "a" and "b", focus 'global', the default
\* data_priorities ['contact_info']
PlannedKeywords == << <<"a">>, <<"b">> >>
PlannedFocus == <<"g">>
PlannedPriorityData == {<<"c">>}

\* _create_discovery_strategy, with the order list(set(methods)) came out in
_create_discovery_strategy(target_type, search_depth, context, urgency_level, order) ==
    [collection_methods |-> order,
     search_keywords |-> PlannedKeywords,
     source_priorities |-> _calculate_source_priorities(target_type, context),
     time_allocation |-> _calculate_time_allocation(urgency_level, order),
     parallel_execution |-> Len(order) > 2,
     target |-> [target_type |-> target_type,
                 context |-> context,
                 search_depth |-> search_depth,
                 urgency_level |-> urgency_level,
                 geographic_focus |-> PlannedFocus,
                 priority_data |-> PlannedPriorityData]]

\* quick_strategy of quick_discovery
quick_strategy(target_type) ==
    [collection_methods |-> <<"search_engines">>,
     search_keywords |-> PlannedKeywords,
     source_priorities |-> [m \in {"search_engines"} |-> 10],
     time_allocation |-> [m \in {"search_engines"} |-> 5],
     parallel_execution |-> FALSE,
     target |-> [target_type |-> target_type,
                 context |-> "quick_search",
                 search_depth |-> "quick",
                 urgency_level |-> "immediate",
                 geographic_focus |-> PlannedFocus,
                 priority_data |-> {<<"c">>, <<"b">>}]]

\* Every strategy analyze_target_and_strategize can plan for these inputs
PlannedStrategies(types, depths, contexts, urgencies) ==
    UNION {{_create_discovery_strategy(x[1], x[2], x[3], x[4], order) :
               order \in ListsOfSet(_select_collection_methods(x[1], x[2]))} :
           x \in types \X depths \X contexts \X urgencies}

----------------------------------------------------------------------------
(* The investigation registry and comprehensive_discovery.                 *)
(*                                                                         *)
(* The engine runs on one asyncio event loop: a coroutine runs without     *)
(* interruption from one await that suspends to the next, so each action   *)
(* below is one such stretch.  A call suspends only while collectors are   *)
(* in flight.                                                              *)

\* Calls of comprehensive_discovery followed by the registry model
MaxCalls == 3

\* Last tick of the clock
MaxClock == 1

CallIds == 1..MaxCalls

\* A call that has not been made yet
IdleCall ==
    [pc |-> "idle", investigation_id |-> None, strategy |-> None, tasks |-> <<>>,
     all_results |-> <<>>, returned |-> <<>>, cancelled_in_flight |-> FALSE,
     error |-> None]

\* What a collector hands back when it does not come back empty
CollectorFinds(method) ==
    CASE method = "search_engines" ->
            << IntelligenceResult(1, <<"e">>, <<"A", "b">>, 50, None),
               IntelligenceResult(2, <<"e">>, <<"a", "b", " ">>, 90, None) >>
      [] method = "social_media" ->
            << IntelligenceResult(3, <<"p">>, <<"a", " ", "g">>, 70, None) >>
      [] method = "business_directories" ->
            << IntelligenceResult(4, <<"c">>, <<"b">>, 50, None) >>
      [] method = "job_portals" ->
            << IntelligenceResult(5, <<"p">>, <<"b">>, 20, None) >>
      [] method = "specialized_tools" ->
            << IntelligenceResult(6, <<"d">>, <<"g">>, 100, None) >>


\* _create_investigation_id: the clock reading and len(self.active_investigations)
_create_investigation_id == <<now, Cardinality(DOMAIN active_investigations)>>

\* One coroutine per method of strategy.collection_methods that is a key of
\* self.collectors; a coroutine that was created has not started yet.
collection_tasks(strategy) ==
    LET known == SelectSeq(strategy.collection_methods, LAMBDA m : m \in Collectors)
    IN  [k \in 1..Len(known) |-> [method |-> known[k], state |-> "created", result |-> <<>>]]

TaskDone(task) == task.state \in {"returned", "raised"}

\* Mutant of gather_done: resuming as soon as one task has finished
gather_first_completed(tasks) == \E k \in 1..Len(tasks) : TaskDone(tasks[k])

\* await asyncio.gather(*tasks, return_exceptions=True) resumes when every
\* task has returned or raised
gather_done(tasks) == \A k \in 1..Len(tasks) : TaskDone(tasks[k])

\* Mutant of _execute_parallel_collection: gather without return_exceptions,
\* so that a raising task sends the whole call into its except branch
parallel_collection_fail_fast(tasks) ==
    IF \E k \in 1..Len(tasks) : tasks[k].state = "raised"
    THEN <<>>
    ELSE [k \in 1..Len(tasks) |-> tasks[k].result]

\* _execute_parallel_collection, after gather: an exception becomes []
_execute_parallel_collection(tasks) ==
    [k \in 1..Len(tasks) |-> IF tasks[k].state = "raised" THEN <<>> ELSE tasks[k].result]

\* _execute_sequential_collection, after its loop: results.append(result), or
\* results.append([]) in the except branch
_execute_sequential_collection(tasks) ==
    [k \in 1..Len(tasks) |-> IF tasks[k].state = "raised" THEN <<>> ELSE tasks[k].result]

\* all_results of comprehensive_discovery: every batch here is a list and is
\* added with extend.  (A collector that returns a value x that is not a list
\* is modelled as returning [x], which gives the same all_results when x is
\* truthy, and as returning [] when x is falsy.)
RECURSIVE flatten(_)
flatten(batches) ==
    IF batches = <<>> THEN <<>> ELSE batches[1] \o flatten(Tail(batches))

\* An item that is an IntelligenceResult, with its attributes
IsIntelligenceResult(item) == "data_type" \in DOMAIN item

\* What a collector hands back when it breaks its contract: an item that is
\* not an IntelligenceResult
NotAResult == [raw |-> "text"]

\* Mutant of Complete: a call that found nothing marks its entry failed
Complete_failed_when_empty(d, tasks, batches) ==
    LET call == calls[d]
        id == call.investigation_id[1]
        all_results == flatten(batches)
        processed_results == _post_process_results(all_results, call.strategy, now)
    IN  /\ id \in DOMAIN active_investigations
        /\ active_investigations' =
               [active_investigations EXCEPT
                   ![id].status = IF processed_results = <<>> THEN "failed" ELSE "completed",
                   ![id].results = processed_results,
                   ![id].end_time = Some(now)]
        /\ calls' = [calls EXCEPT ![d].pc = "done",
                                  ![d].tasks = tasks,
                                  ![d].all_results = all_results,
                                  ![d].returned = processed_results]

\* The end of comprehensive_discovery, from the flattening on: post-processing
\* and the three assignments to the registry entry, which raise KeyError when
\* the entry is gone.
Complete(d, tasks, batches) ==
    LET call == calls[d]
        id == call.investigation_id[1]
        all_results == flatten(batches)
        processed_results == _post_process_results(all_results, call.strategy, now)
    IN  IF \E i \in 1..Len(all_results) : ~IsIntelligenceResult(all_results[i])
        THEN \* result.data_type in _remove_duplicates raises AttributeError
             /\ active_investigations' = active_investigations
             /\ calls' = [calls EXCEPT ![d].pc = "raised",
                                       ![d].tasks = tasks,
                                       ![d].all_results = all_results,
                                       ![d].error = Some("AttributeError")]
        ELSE IF id \in DOMAIN active_investigations
        THEN /\ active_investigations' =
                    [active_investigations EXCEPT
                        ![id].status = "completed",
                        ![id].results = processed_results,
                        ![id].end_time = Some(now)]
             /\ calls' = [calls EXCEPT ![d].pc = "done",
                                       ![d].tasks = tasks,
                                       ![d].all_results = all_results,
                                       ![d].returned = processed_results]
        ELSE \* self.active_investigations[investigation_id] raises KeyError
             /\ active_investigations' = active_investigations
             /\ calls' = [calls EXCEPT ![d].pc = "raised",
                                       ![d].tasks = tasks,
                                       ![d].all_results = all_results,
                                       ![d].error = Some("KeyError")]

\* The registry with a new running entry under id
Register(id, strategy) ==
    [i \in DOMAIN active_investigations \cup {id} |->
        IF i = id
        THEN [strategy |-> strategy, start_time |-> now, status |-> "running",
              results |-> <<>>, end_time |-> None]
        ELSE active_investigations[i]]

\* comprehensive_discovery up to its first suspension: the entry is
\* registered, the coroutines are created, and either gather starts them all
\* or the sequential loop awaits the first one.
StartParallel(d, strategy) ==
    LET id == _create_investigation_id
        tasks == collection_tasks(strategy)
    IN  /\ calls[d].pc = "idle"
        /\ \A e \in CallIds : e < d => calls[e].pc # "idle"
        /\ strategy.parallel_execution /\ Len(tasks) > 1
        /\ active_investigations' = Register(id, strategy)
        /\ calls' = [calls EXCEPT
                        ![d].pc = "gathering",
                        ![d].investigation_id = Some(id),
                        ![d].strategy = strategy,
                        ![d].tasks = [k \in 1..Len(tasks) |->
                                         [tasks[k] EXCEPT !.state = "pending"]]]
        /\ UNCHANGED <<now, rank_vars, side_vars>>

StartSequential(d, strategy) ==
    LET id == _create_investigation_id
        tasks == collection_tasks(strategy)
    IN  /\ calls[d].pc = "idle"
        /\ \A e \in CallIds : e < d => calls[e].pc # "idle"
        /\ ~(strategy.parallel_execution /\ Len(tasks) > 1)
        /\ Len(tasks) > 0
        /\ active_investigations' = Register(id, strategy)
        /\ calls' = [calls EXCEPT
                        ![d].pc = "sequential",
                        ![d].investigation_id = Some(id),
                        ![d].strategy = strategy,
                        ![d].tasks = [tasks EXCEPT ![1].state = "pending"]]
        /\ UNCHANGED <<now, rank_vars, side_vars>>

\* A collector in flight under gather returns a list or raises; the call
\* stays suspended.
ParallelTaskEnds(d, k, state, result) ==
    /\ calls[d].pc = "gathering"
    /\ k \in 1..Len(calls[d].tasks)
    /\ calls[d].tasks[k].state = "pending"
    /\ calls' = [calls EXCEPT ![d].tasks[k].state = state, ![d].tasks[k].result = result]
    /\ UNCHANGED <<now, active_investigations, rank_vars, side_vars>>

\* gather is done: the call resumes and runs to its end
GatherResumes(d) ==
    /\ calls[d].pc = "gathering"
    /\ gather_done(calls[d].tasks)
    /\ Complete(d, calls[d].tasks, _execute_parallel_collection(calls[d].tasks))
    /\ UNCHANGED <<now, rank_vars, side_vars>>

\* The collector the sequential loop awaits returns a list or raises: the
\* loop goes on to await the next coroutine, or, after the last one, the call
\* runs to its end.
SequentialTaskEnds(d, k, state, result) ==
    /\ calls[d].pc = "sequential"
    /\ k \in 1..Len(calls[d].tasks)
    /\ calls[d].tasks[k].state = "pending"
    /\ LET ended == [calls[d].tasks EXCEPT ![k].state = state, ![k].result = result]
       IN  IF k < Len(ended)
           THEN /\ calls' = [calls EXCEPT
                                ![d].tasks = [ended EXCEPT ![k + 1].state = "pending"]]
                /\ UNCHANGED active_investigations
           ELSE Complete(d, ended, _execute_sequential_collection(ended))
    /\ UNCHANGED <<now, rank_vars, side_vars>>

\* cancel_investigation(id) for an id of the registry (for any other id it
\* returns False and changes nothing).  cancelled_in_flight records that it
\* returned True while the call that registered id was suspended.
cancel_investigation(id) ==
    /\ id \in DOMAIN active_investigations
    /\ active_investigations' =
           [active_investigations EXCEPT ![id].status = "cancelled",
                                         ![id].end_time = Some(now)]
    /\ calls' = [d \in CallIds |->
                    IF calls[d].investigation_id = Some(id)
                       /\ calls[d].pc \in {"gathering", "sequential"}
                    THEN [calls[d] EXCEPT !.cancelled_in_flight = TRUE]
                    ELSE calls[d]]
    /\ UNCHANGED <<now, rank_vars, side_vars>>

\* get_discovery_progress: the status and the result count it reports
get_discovery_progress(id) ==
    IF id \notin DOMAIN active_investigations
    THEN [error |-> "Investigation not found"]
    ELSE [status |-> active_investigations[id].status,
          results_found |-> Len(active_investigations[id].results)]

\* Mutant of cleanup_old_investigations: entries still running are kept
cleanup_keeping_running(days) ==
    LET cutoff_date == now - days
        investigations_to_remove ==
            {inv_id \in DOMAIN active_investigations :
                /\ active_investigations[inv_id].start_time < cutoff_date
                /\ active_investigations[inv_id].status # "running"}
    IN  /\ active_investigations' =
               [inv_id \in DOMAIN active_investigations \ investigations_to_remove |->
                   active_investigations[inv_id]]
        /\ last_cleanup' = Some([days |-> days,
                                 cleaned_count |-> Cardinality(investigations_to_remove)])
        /\ UNCHANGED <<now, calls, rank_vars, plan_vars, analyzer_vars, limiter_vars,
                       intelligence_vars, proxy_vars>>

\* cleanup_old_investigations(days): every entry that started before
\* now - days is deleted, and their number is returned
cleanup_old_investigations(days) ==
    LET cutoff_date == now - days
        investigations_to_remove ==
            {inv_id \in DOMAIN active_investigations :
                active_investigations[inv_id].start_time < cutoff_date}
    IN  /\ active_investigations' =
               [inv_id \in DOMAIN active_investigations \ investigations_to_remove |->
                   active_investigations[inv_id]]
        /\ last_cleanup' = Some([days |-> days,
                                 cleaned_count |-> Cardinality(investigations_to_remove)])
        /\ UNCHANGED <<now, calls, rank_vars, plan_vars, analyzer_vars, limiter_vars,
                       intelligence_vars, proxy_vars>>

\* The clock advances
Tick ==
    /\ now < MaxClock
    /\ now' = now + 1
    /\ UNCHANGED <<engine_vars, rank_vars, side_vars>>

EngineInit ==
    /\ now = 0
    /\ active_investigations = <<>>
    /\ calls = [d \in CallIds |-> IdleCall]
    /\ raw_results = <<>>
    /\ rank_strategy = None
    /\ ranked = <<>>
    /\ reranked = <<>>
    /\ rank_pc = "off"
    /\ PlanOff /\ AnalyzerOff /\ LimiterOff /\ IntelligenceOff /\ ProxyOff /\ CleanupOff

\* How a collector in flight may end: it returns one of these lists or raises
TaskOutcomes(returns) ==
    {<<"returned", r>> : r \in returns} \cup {<<"raised", <<>>>>}

\* Orchestration: one call of comprehensive_discovery with any strategy the
\* planner or quick_discovery can build, its collectors ending in any order
\* and with any outcome, and cancel_investigation at any point.
OrchestrationCalls == {1}

SearchDepths == {"standard", "comprehensive"}

Contexts == {"general_research", "recruitment", "lead_generation"}

OrchestrationStrategies ==
    PlannedStrategies(TargetType, SearchDepths, Contexts, {"standard"})
    \cup {quick_strategy("mixed_intelligence")}

Next ==
    \/ \E d \in OrchestrationCalls, strategy \in OrchestrationStrategies :
          StartParallel(d, strategy)
    \/ \E d \in OrchestrationCalls, strategy \in OrchestrationStrategies :
          StartSequential(d, strategy)
    \/ \E d \in OrchestrationCalls : \E k \in 1..Len(calls[d].tasks) :
          \E o \in TaskOutcomes({CollectorFinds(calls[d].tasks[k].method)}) : ParallelTaskEnds(d, k, o[1], o[2])
    \/ \E d \in OrchestrationCalls : GatherResumes(d)
    \/ \E d \in OrchestrationCalls : \E k \in 1..Len(calls[d].tasks) :
          \E o \in TaskOutcomes({CollectorFinds(calls[d].tasks[k].method)}) : SequentialTaskEnds(d, k, o[1], o[2])
    \/ \E id \in DOMAIN active_investigations : cancel_investigation(id)

Spec == EngineInit /\ [][Next]_vars

\* Registry life cycle: several calls, a quick strategy and a planned strategy
\* with three sources, cancellation and clean-up at any point, a ticking
\* clock.  The clock counts moments: registrations at the same value of `now`
\* fall into the same clock second, and the ages given to
\* cleanup_old_investigations are counted in moments too.
CleanupDays == {0, 1}

LifecycleStrategies ==
    {quick_strategy("mixed_intelligence"),
     _create_discovery_strategy("business_category", "standard", "lead_generation", "standard",
                                <<"business_directories", "search_engines", "social_media">>)}

\* The calls of the life cycle: all but the last
LifecycleCalls == CallIds \ {MaxCalls}

LifecycleNext ==
    \/ \E d \in LifecycleCalls, strategy \in LifecycleStrategies : StartParallel(d, strategy)
    \/ \E d \in LifecycleCalls, strategy \in LifecycleStrategies : StartSequential(d, strategy)
    \/ \E d \in LifecycleCalls : \E k \in 1..Len(calls[d].tasks) :
          \E o \in TaskOutcomes({CollectorFinds(calls[d].tasks[k].method)}) : ParallelTaskEnds(d, k, o[1], o[2])
    \/ \E d \in LifecycleCalls : GatherResumes(d)
    \/ \E d \in LifecycleCalls : \E k \in 1..Len(calls[d].tasks) :
          \E o \in TaskOutcomes({CollectorFinds(calls[d].tasks[k].method)}) : SequentialTaskEnds(d, k, o[1], o[2])
    \/ \E id \in DOMAIN active_investigations : cancel_investigation(id)
    \/ \E days \in CleanupDays : cleanup_old_investigations(days)
    \/ Tick

SpecLifecycle == EngineInit /\ [][LifecycleNext]_vars

\* Registry: every call runs quick_discovery's strategy, whose one collector
\* returns results or raises, with cancellation and clean-up at any point
\* and a ticking clock
RegistryNext ==
    \/ \E d \in CallIds : StartSequential(d, quick_strategy("mixed_intelligence"))
    \/ \E d \in CallIds : \E k \in 1..Len(calls[d].tasks) :
          \E o \in TaskOutcomes({CollectorFinds(calls[d].tasks[k].method)}) : SequentialTaskEnds(d, k, o[1], o[2])
    \/ \E id \in DOMAIN active_investigations : cancel_investigation(id)
    \/ \E days \in CleanupDays : cleanup_old_investigations(days)
    \/ Tick

SpecRegistry == EngineInit /\ [][RegistryNext]_vars

\* Clean-up: the registry steps of the calls of the life cycle
CleanupNext ==
    \/ \E d \in LifecycleCalls : StartSequential(d, quick_strategy("mixed_intelligence"))
    \/ \E d \in LifecycleCalls : \E k \in 1..Len(calls[d].tasks) :
          \E o \in TaskOutcomes({CollectorFinds(calls[d].tasks[k].method)}) : SequentialTaskEnds(d, k, o[1], o[2])
    \/ \E id \in DOMAIN active_investigations : cancel_investigation(id)
    \/ \E days \in CleanupDays : cleanup_old_investigations(days)
    \/ Tick

SpecCleanup == EngineInit /\ [][CleanupNext]_vars

\* Collection outcomes: one call with a quick strategy, a sequential strategy
\* over two sources or a parallel strategy over three, every collector
\* returning results, returning an empty list or raising
OutcomeStrategies ==
    LifecycleStrategies
    \cup {_create_discovery_strategy("domain_entity", "standard", "general_research",
                                     "standard", <<"search_engines", "specialized_tools">>)}

OutcomesNext ==
    \/ \E d \in OrchestrationCalls, strategy \in OutcomeStrategies : StartParallel(d, strategy)
    \/ \E d \in OrchestrationCalls, strategy \in OutcomeStrategies : StartSequential(d, strategy)
    \/ \E d \in OrchestrationCalls : \E k \in 1..Len(calls[d].tasks) :
          \E o \in TaskOutcomes({<<>>, CollectorFinds(calls[d].tasks[k].method)}) : ParallelTaskEnds(d, k, o[1], o[2])
    \/ \E d \in OrchestrationCalls : GatherResumes(d)
    \/ \E d \in OrchestrationCalls : \E k \in 1..Len(calls[d].tasks) :
          \E o \in TaskOutcomes({<<>>, CollectorFinds(calls[d].tasks[k].method)}) : SequentialTaskEnds(d, k, o[1], o[2])
    \/ \E id \in DOMAIN active_investigations : cancel_investigation(id)
    \/ Tick

SpecOutcomes == EngineInit /\ [][OutcomesNext]_vars

\* Completion: one call as under SpecOutcomes, where a collector may also
\* break its contract and hand back something that is not an
\* IntelligenceResult.  Every collector in flight eventually returns or
\* raises, and the event loop eventually resumes a call whose gather is done;
\* nothing obliges anyone to start a call or to cancel one.
CollectorReturns(method) == {<<>>, CollectorFinds(method), <<NotAResult>>}

ACollectorEnds ==
    \/ \E d \in OrchestrationCalls : \E k \in 1..Len(calls[d].tasks) :
          \E o \in TaskOutcomes(CollectorReturns(calls[d].tasks[k].method)) : ParallelTaskEnds(d, k, o[1], o[2])
    \/ \E d \in OrchestrationCalls : \E k \in 1..Len(calls[d].tasks) :
          \E o \in TaskOutcomes(CollectorReturns(calls[d].tasks[k].method)) : SequentialTaskEnds(d, k, o[1], o[2])

AGatherResumes == \E d \in OrchestrationCalls : GatherResumes(d)

CompletionNext ==
    \/ \E d \in OrchestrationCalls, strategy \in OutcomeStrategies : StartParallel(d, strategy)
    \/ \E d \in OrchestrationCalls, strategy \in OutcomeStrategies : StartSequential(d, strategy)
    \/ ACollectorEnds
    \/ AGatherResumes
    \/ \E id \in DOMAIN active_investigations : cancel_investigation(id)

SpecCompletion ==
    EngineInit /\ [][CompletionNext]_vars
        /\ WF_vars(ACollectorEnds) /\ WF_vars(AGatherResumes)

----------------------------------------------------------------------------
(* Properties of the aggregation and ranking stage, checked under SpecRank. *)

Range(s) == {s[i] : i \in 1..Len(s)}

\* The deduplication key the specification names: the data type paired with
\* the lower-cased, trimmed value
NormalizedKey(result) == <<result.data_type, strip(lower(result.value))>>

\* C7 as stated: whenever the input of _post_process_results holds two or
\* more entries with the same (data type, normalized value), the returned
\* list holds exactly one entry with that key.
C7_ExactlyOnePerDuplicatedKey ==
    rank_pc # "input" =>
        LET n == Len(raw_results)
            key == [i \in 1..n |-> NormalizedKey(raw_results[i])] \o <<>>
            out == [p \in 1..Len(ranked) |-> NormalizedKey(ranked[p])] \o <<>>
        IN  Cardinality(Range(key)) = n
            \/ \A i \in 1..n : \A j \in (i + 1)..n :
                  key[i] = key[j] =>
                      Cardinality({p \in 1..Len(out) : out[p] = key[i]}) = 1

\* C7 amended: the returned list never holds two entries with the same
\* identifier string data_type + ":" + normalized value, and it holds exactly
\* one entry for every identifier of the input whenever the number of
\* distinct identifiers of the input is at most the urgency's limit.
C7_OnePerIdentifierWithinLimit ==
    rank_pc # "input" =>
        LET in_ids == {identifier(raw_results[i]) : i \in 1..Len(raw_results)}
            out_ids == {identifier(ranked[p]) : p \in 1..Len(ranked)}
        IN  /\ Cardinality(out_ids) = Len(ranked)
            /\ out_ids \subseteq in_ids
            /\ Cardinality(in_ids) <= limit_of(rank_strategy.target.urgency_level)
                  => out_ids = in_ids

\* C7 witness: a ranked list that kept one of two entries whose values differ
\* in case and whitespace only
C7_Witness ==
    /\ rank_pc = "ranked"
    /\ Len(raw_results) <= MaxBase
    /\ \E i, j \in 1..Len(raw_results) :
          /\ i < j
          /\ raw_results[i].value # raw_results[j].value
          /\ identifier(raw_results[i]) = identifier(raw_results[j])
          /\ Cardinality({p \in 1..Len(ranked) :
                            identifier(ranked[p]) = identifier(raw_results[i])}) = 1

\* C8 as stated: after _calculate_relevance_scores every relevance_score lies
\* in [0, 1] (0..1000 thousandths), whatever the confidence, keywords,
\* geographic focus and timestamp.
C8_RelevanceInUnitInterval ==
    rank_pc # "input" =>
        \A p \in 1..Len(ranked) :
            /\ ranked[p].relevance_score >= 0
            /\ ranked[p].relevance_score <= ScoreCap

\* C9: applying _post_process_results to a list it returned (same strategy,
\* same now) returns that list, in that order; and entries that tie on
\* (relevance_score, confidence) stand in the order in which they first
\* appeared in the input.
C9_RankingIdempotent ==
    /\ rank_pc = "reranked" => reranked = ranked
    /\ rank_pc # "input" =>
          LET in_ids == [i \in 1..Len(raw_results) |-> identifier(raw_results[i])] \o <<>>
              out_ids == [p \in 1..Len(ranked) |-> identifier(ranked[p])] \o <<>>
              first_place(p) == SetMin({i \in 1..Len(in_ids) : in_ids[i] = out_ids[p]})
          IN  \A p \in 1..(Len(ranked) - 1) :
                  KeyEqual(ranked[p], ranked[p + 1]) => first_place(p) < first_place(p + 1)

\* C9 witness: a re-ranked list with a tie whose first application had to
\* move an entry to the front
C9_Witness ==
    /\ rank_pc = "reranked"
    /\ Len(raw_results) <= MaxBase
    /\ \E p \in 1..(Len(reranked) - 1) : KeyEqual(reranked[p], reranked[p + 1])
    /\ reranked # <<>>
    /\ reranked[1].id # raw_results[1].id

\* The limits C10 names
ClaimedCap(urgency_level) ==
    CASE urgency_level = "immediate" -> 50
      [] urgency_level = "standard" -> 200
      [] urgency_level = "comprehensive" -> 1000

\* C10: the returned list is the first min(n, cap) entries of the
\* deduplicated list in descending order of (relevance_score, confidence):
\* it has min(n, cap) entries, all of them scored entries of the deduplicated
\* list, no two the same, in non-increasing key order, and no left-out entry
\* has a greater key than a returned one.
C10_TopCapOfSorted ==
    (rank_pc # "input" /\ rank_strategy.target.urgency_level \in Urgencies) =>
        LET cap == ClaimedCap(rank_strategy.target.urgency_level)
            scored == _calculate_relevance_scores(_remove_duplicates(raw_results),
                                                  rank_strategy, now)
            n == Len(scored)
            m == Len(ranked)
            returned == Range(ranked)
            left_out == Range(scored) \ returned
        IN  /\ m = Min2(n, cap)
            /\ m <= cap
            /\ returned \subseteq Range(scored)
            /\ Cardinality(returned) = m
            /\ \A p \in 1..(m - 1) : ~KeyGreater(ranked[p + 1], ranked[p])
            /\ m > 0 => \A x \in left_out : ~KeyGreater(x, ranked[m])

\* C10 witness: more than 1000 distinct entries under urgency comprehensive,
\* of which 1000 are returned
C10_Witness ==
    /\ rank_pc = "ranked"
    /\ rank_strategy.target.urgency_level = "comprehensive"
    /\ Len(raw_results) > LimitComprehensive
    /\ Len(ranked) = LimitComprehensive

----------------------------------------------------------------------------
(* Properties of the registry and of collection, checked under Spec.       *)

TerminalStatuses == {"completed", "cancelled", "failed"}

\* The call has started and runs its collectors under gather
InParallelMode(d) ==
    /\ calls[d].pc # "idle"
    /\ calls[d].strategy.parallel_execution
    /\ Len(calls[d].tasks) > 1

\* The call has started and runs its collectors in the sequential loop
InSequentialMode(d) ==
    /\ calls[d].pc # "idle"
    /\ ~(calls[d].strategy.parallel_execution /\ Len(calls[d].tasks) > 1)

\* C1 as stated: the status of a registry entry changes only from running to
\* completed, cancelled or failed; once it is one of these three, no
\* operation changes it again.
C1_StatusIsOneWay ==
    [][\A id \in DOMAIN active_investigations :
          /\ id \in DOMAIN active_investigations'
          /\ \/ active_investigations'[id].status = active_investigations[id].status
             \/ /\ active_investigations[id].status = "running"
                /\ active_investigations'[id].status \in TerminalStatuses]_vars

\* C2 as stated: when cancel_investigation(id) returned True while the call
\* of comprehensive_discovery for id was suspended on its collectors, then
\* once that call has finished the entry's status is cancelled and its
\* end_time is set.
C2_CancelledInFlightEndsCancelled ==
    \A d \in CallIds :
        (calls[d].pc = "done" /\ calls[d].cancelled_in_flight) =>
            LET id == calls[d].investigation_id[1]
            IN  /\ id \in DOMAIN active_investigations
                /\ active_investigations[id].status = "cancelled"
                /\ active_investigations[id].end_time # None

\* C3 as stated: once an entry's status is completed or cancelled, its result
\* list, and with it the result count get_discovery_progress reports, never
\* changes again.
C3_ResultsFrozenWhenEnded ==
    [][\A id \in DOMAIN active_investigations :
          active_investigations[id].status \in {"completed", "cancelled"} =>
              /\ id \in DOMAIN active_investigations'
              /\ active_investigations'[id].results = active_investigations[id].results
              /\ get_discovery_progress(id).results_found' =
                     get_discovery_progress(id).results_found]_vars

\* What the collectors that returned handed back, in the order of the tasks
RECURSIVE ReturnedInOrder(_)
ReturnedInOrder(tasks) ==
    IF tasks = <<>> THEN <<>>
    ELSE (IF Head(tasks).state = "returned" THEN Head(tasks).result ELSE <<>>)
         \o ReturnedInOrder(Tail(tasks))

\* C4: in parallel mode, whichever collectors raise, the call does not raise,
\* and the list handed to post-processing holds every result of every
\* collector that returned and nothing for a collector that raised.
C4_BulkheadIsolation ==
    \A d \in CallIds :
        InParallelMode(d) =>
            /\ calls[d].pc # "raised"
            /\ calls[d].pc = "done" => calls[d].all_results = ReturnedInOrder(calls[d].tasks)

\* C4 witness: a finished parallel call in which one collector raised and
\* another one's results reached post-processing
C4_Witness ==
    \E d \in CallIds :
        /\ InParallelMode(d)
        /\ calls[d].pc = "done"
        /\ \E k \in 1..Len(calls[d].tasks) : calls[d].tasks[k].state = "raised"
        /\ \E k \in 1..Len(calls[d].tasks) :
              /\ calls[d].tasks[k].state = "returned"
              /\ calls[d].tasks[k].result # <<>>
        /\ calls[d].all_results # <<>>

\* C5: in parallel mode no collector is left unstarted while the call waits,
\* and the call neither hands anything to post-processing, nor returns, nor
\* marks its entry completed before every collector has returned or raised.
C5_AllStartedAllAwaited ==
    \A d \in CallIds :
        InParallelMode(d) =>
            LET tasks == calls[d].tasks
                all_ended == \A k \in 1..Len(tasks) : tasks[k].state \in {"returned", "raised"}
                id == calls[d].investigation_id[1]
            IN  /\ \A k \in 1..Len(tasks) : tasks[k].state # "created"
                /\ calls[d].pc = "done" => all_ended
                /\ calls[d].all_results # <<>> => all_ended
                /\ (id \in DOMAIN active_investigations
                    /\ active_investigations[id].status = "completed") => all_ended

\* C5 witness: a parallel call over four sources that has completed its entry
C5_Witness ==
    \E d \in CallIds :
        /\ InParallelMode(d)
        /\ Len(calls[d].tasks) = 4
        /\ calls[d].pc = "done"
        /\ active_investigations[calls[d].investigation_id[1]].status = "completed"
        /\ \E k \in 1..Len(calls[d].tasks) : calls[d].tasks[k].state = "raised"

\* C6 as stated: in sequential mode at most one collector is in flight at a
\* time, a collector is invoked only after every collector of higher source
\* priority has been invoked, and a raising collector does not keep the later
\* ones from running.
C6_SequentialInPriorityOrder ==
    \A d \in CallIds :
        InSequentialMode(d) =>
            LET tasks == calls[d].tasks
                priority(k) == calls[d].strategy.source_priorities[tasks[k].method]
            IN  /\ Cardinality({k \in 1..Len(tasks) : tasks[k].state = "pending"}) <= 1
                /\ \A j, k \in 1..Len(tasks) :
                      (tasks[k].state # "created" /\ priority(j) > priority(k))
                          => tasks[j].state # "created"
                /\ calls[d].pc = "done" =>
                      \A k \in 1..Len(tasks) : tasks[k].state \in {"returned", "raised"}

----------------------------------------------------------------------------
(* Target analysis: analyze_target_and_strategize and what it calls.       *)
(* Strings of the source that are not ASCII are written as ASCII           *)
(* stand-ins ("riyadh (arabic)").                                          *)

\* The character class \w
IsWordChar(c) ==
    \/ \E i \in 1..Len(LowerCase) : LowerCase[i] = c \/ UpperCase[i] = c
    \/ \E i \in 1..Len(Digits) : Digits[i] = c
    \/ c = "_"

\* \b at the position between s[p - 1] and s[p]
boundary(s, p) ==
    LET word_at(i) == i \in 1..Len(s) /\ IsWordChar(s[i])
    IN  word_at(p - 1) # word_at(p)

\* `sub in s` for strings
contains(s, sub) ==
    \E i \in 1..(Len(s) - Len(sub) + 1) : SubSeq(s, i, i + Len(sub) - 1) = sub

\* The alternatives of a regular-expression group, as character sequences
words(alternatives) == {chars(w) : w \in alternatives}

\* Where \b(w1|w2|...)\b matches in s: the <<first, last>> positions
word_spans(s, alternatives) ==
    LET n == Len(s)
        hit(w, i) == /\ i + Len(w) - 1 <= n
                     /\ SubSeq(s, i, i + Len(w) - 1) = w
                     /\ boundary(s, i)
                     /\ boundary(s, i + Len(w))
    IN  {<<q[2], q[2] + Len(q[1]) - 1>> :
            q \in {r \in words(alternatives) \X (1..n) : hit(r[1], r[2])}}

\* re.search of \b(..)\b.*\b(..)\b ... : the groups match in this order, each
\* after the end of the one before
RECURSIVE groups_match(_, _, _)
groups_match(s, groups, after) ==
    IF groups = <<>> THEN TRUE
    ELSE \E span \in word_spans(s, Head(groups)) :
            span[1] > after /\ groups_match(s, Tail(groups), span[2])

re_search(pattern, s) == groups_match(s, pattern, 0)

\* _load_target_patterns: every pattern as the list of its groups
Developers == {"developer", "developers", "engineer", "engineers"}
Companies == {"companie", "companies"}
Firms == {"firm", "firms"}

people_patterns ==
    << << {"unemployed", "jobless", "seeking", "looking for work", "available"},
          Developers \cup {"manager", "managers", "worker", "workers"} >>,
       << Developers \cup {"professional", "professionals"},
          {"in", "from", "at"}, {"riyadh", "jeddah", "dubai"} >>,
       << {"job seeker", "job seekers", "candidate", "candidates", "applicant", "applicants"} >>,
       << {"freelancer", "freelancers", "contractor", "contractors",
           "consultant", "consultants"} >>,
       << {"delivery", "driver", "courier"}, {"worker", "workers", "staff", "personnel"} >> >>

business_patterns ==
    << << {"hotel", "hotels", "restaurant", "restaurants", "businesse", "businesses"}
             \cup Companies,
          {"in", "at", "from"}, {"riyadh", "dubai", "saudi"} >>,
       << {"conference", "event", "wedding"},
          {"organizer", "organizers", "planner", "planners"} \cup Companies >>,
       << {"tech", "technology", "software", "IT"},
          Companies \cup Firms \cup {"startup", "startups"} >>,
       << {"retail", "shop", "shops", "store", "stores", "outlet", "outlets"} >> >>

service_patterns ==
    << << {"catering", "logistics", "transportation", "delivery"},
          {"service", "services"} \cup Companies >>,
       << {"marketing", "advertising", "consulting"}, {"agencie", "agencies"} \cup Firms >>,
       << {"legal", "law", "accounting", "finance"}, Firms \cup {"office", "offices"} >> >>

topic_patterns ==
    << << {"artificial intelligence", "AI", "machine learning", "ML"},
          Companies \cup {"research", "development"} >>,
       << {"renewable energy", "solar", "wind", "green technology"} >>,
       << {"fintech", "blockchain", "cryptocurrency", "digital banking"} >> >>

any_pattern(patterns, s) == \E k \in 1..Len(patterns) : re_search(patterns[k], s)

\* re.search(r'\b[a-zA-Z0-9-]+\.[a-zA-Z]{2,}\b', s)
domain_search(s) ==
    LET n == Len(s)
        letter(c) == \E i \in 1..Len(LowerCase) : LowerCase[i] = c \/ UpperCase[i] = c
        label(c) == (IsWordChar(c) /\ c # "_") \/ c = "-"
    IN  \E i, dot, last \in 1..n :
           /\ i < dot /\ dot + 2 <= last
           /\ s[dot] = "."
           /\ \A k \in i..(dot - 1) : label(s[k])
           /\ \A k \in (dot + 1)..last : letter(s[k])
           /\ boundary(s, i)
           /\ boundary(s, last + 1)

\* Mutant of _detect_target_type: the business patterns are tried first
_detect_target_type_business_first(user_input) ==
    LET input_lower == lower(user_input)
    IN  IF any_pattern(business_patterns, input_lower) THEN "business_category"
        ELSE IF any_pattern(people_patterns, input_lower) THEN "people_group"
        ELSE IF any_pattern(service_patterns, input_lower) THEN "service_providers"
        ELSE IF any_pattern(topic_patterns, input_lower) THEN "topic_research"
        ELSE IF domain_search(input_lower) THEN "domain_entity"
        ELSE "mixed_intelligence"

\* _detect_target_type
_detect_target_type(user_input) ==
    LET input_lower == lower(user_input)
    IN  IF any_pattern(people_patterns, input_lower) THEN "people_group"
        ELSE IF any_pattern(business_patterns, input_lower) THEN "business_category"
        ELSE IF any_pattern(service_patterns, input_lower) THEN "service_providers"
        ELSE IF any_pattern(topic_patterns, input_lower) THEN "topic_research"
        ELSE IF domain_search(input_lower) THEN "domain_entity"
        ELSE "mixed_intelligence"

\* location_patterns of _extract_geographic_context, in the order of the dict
location_patterns ==
    << [key |-> "riyadh", name |-> "Riyadh", scope |-> "local"],
       [key |-> "jeddah", name |-> "Jeddah", scope |-> "local"],
       [key |-> "dubai", name |-> "Dubai", scope |-> "local"],
       [key |-> "saudi", name |-> "Saudi Arabia", scope |-> "national"],
       [key |-> "uae", name |-> "UAE", scope |-> "national"],
       [key |-> "gulf", name |-> "Gulf Region", scope |-> "regional"],
       [key |-> "gcc", name |-> "GCC Countries", scope |-> "regional"] >>

\* _extract_geographic_context: the first location key found in the input
_extract_geographic_context(user_input) ==
    LET input_lower == lower(user_input)
        found == {k \in 1..Len(location_patterns) :
                     contains(input_lower, chars(location_patterns[k].key))}
    IN  IF found = {}
        THEN [primary_location |-> "global", scope |-> "global"]
        ELSE [primary_location |-> location_patterns[SetMin(found)].name,
              scope |-> location_patterns[SetMin(found)].scope]

\* industry_keywords of _extract_industry_context, in the order of the dict
industry_keywords ==
    << [industry |-> "technology",
        keywords |-> {"tech", "software", "developer", "programmer", "IT", "AI", "digital"}],
       [industry |-> "hospitality",
        keywords |-> {"hotel", "restaurant", "tourism", "travel", "hospitality"}],
       [industry |-> "finance",
        keywords |-> {"bank", "financial", "fintech", "investment", "accounting"}],
       [industry |-> "healthcare",
        keywords |-> {"medical", "health", "clinic", "hospital", "pharmaceutical"}],
       [industry |-> "retail",
        keywords |-> {"retail", "shop", "store", "commerce", "sales"}],
       [industry |-> "logistics",
        keywords |-> {"delivery", "shipping", "transport", "logistics", "courier"}],
       [industry |-> "events",
        keywords |-> {"conference", "event", "wedding", "catering", "planning"}] >>

\* _extract_industry_context: the industries one of whose keywords occurs in
\* the input, in the order of the dict
_extract_industry_context(user_input) ==
    LET input_lower == lower(user_input)
        detected(k) == \E w \in industry_keywords[k].keywords : contains(input_lower, chars(w))
    IN  SelectSeq([k \in 1..Len(industry_keywords) |-> k], LAMBDA k : detected(k))

\* _initialize_keyword_generators
synonyms(word) ==
    CASE word = chars("hotels") ->
            {"accommodation", "lodging", "hospitality", "resorts", "inns"}
      [] word = chars("restaurants") ->
            {"dining", "eateries", "food service", "catering", "cafes"}
      [] word = chars("developers") ->
            {"programmers", "software engineers", "coders", "technical staff"}
      [] word = chars("unemployed") ->
            {"jobless", "seeking employment", "available for work", "between jobs"}
      [] word = chars("companies") ->
            {"businesses", "enterprises", "corporations", "firms", "organizations"}
      [] OTHER -> {}

\* a key of two words ('saudi arabia') is never one word of the input
location_variants(word) ==
    CASE word = chars("riyadh") ->
            {"riyadh (arabic)", "Ar Riyadh", "Riyadh City", "KSA Riyadh"}
      [] word = chars("dubai") -> {"Dubai UAE", "Emirates Dubai", "dubai (arabic)"}
      [] word = chars("gulf") -> {"GCC", "Gulf Region", "Gulf States", "Arabian Gulf"}
      [] OTHER -> {}

industry_terms(industry) ==
    CASE industry = "technology" -> {"tech", "IT", "software", "digital", "innovation", "startup"}
      [] industry = "hospitality" -> {"tourism", "travel", "leisure", "hospitality industry"}
      [] industry = "finance" -> {"banking", "financial services", "fintech", "investment"}
      [] OTHER -> {}

\* enhanced_keywords of _generate_intelligent_keywords, before list(set)
enhanced_keywords(user_input, target_type, industry_context) ==
    LET base_keywords == split_words(user_input)
    IN  base_keywords
        \cup UNION {words(synonyms(lower(w))) : w \in base_keywords}
        \cup UNION {words(industry_terms(industry_keywords[industry_context[k]].industry)) :
                       k \in 1..Len(industry_context)}
        \cup words(CASE target_type = "people_group" ->
                          {"professionals", "staff", "personnel", "team", "employees"}
                     [] target_type = "business_category" ->
                          {"company", "business", "enterprise", "organization"}
                     [] target_type = "service_providers" ->
                          {"services", "provider", "agency", "firm"}
                     [] OTHER -> {})
        \cup UNION {words(location_variants(lower(w))) : w \in base_keywords}

\* Seeds of the interpreter's string hash the model tells apart
MaxSeed == 1

HashSeeds == 0..MaxSeed

RECURSIVE canonical_list(_)
canonical_list(S) ==
    IF S = {} THEN <<>>
    ELSE LET x == CHOOSE y \in S : TRUE IN <<x>> \o canonical_list(S \ {x})

\* list(set(...)) of strings in an interpreter with the given hash seed: the
\* order is fixed by the seed and the set, and differs from seed to seed
list_of_set(seed, S) ==
    LET base == canonical_list(S)
        n == Len(base)
    IN  [i \in 1..n |-> base[((i - 1 + seed) % n) + 1]] \o <<>>

\* dict.get(key, default)
get(dict, key, default) == IF key \in DOMAIN dict THEN dict[key] ELSE default

\* analyze_target_and_strategize in an interpreter with the given hash seed
analyze_target_and_strategize(user_input, questionnaire_data, seed) ==
    LET target_type == _detect_target_type(user_input)
        geographic_info == _extract_geographic_context(user_input)
        industry_context == _extract_industry_context(user_input)
        keywords == list_of_set(seed, enhanced_keywords(user_input, target_type,
                                                         industry_context))
        search_depth == get(questionnaire_data, "search_depth", "standard")
        urgency_level == get(questionnaire_data, "urgency", "standard")
        methods == list_of_set(seed, _select_collection_methods(target_type, search_depth))
        strategy == _create_discovery_strategy(target_type, search_depth,
                                               get(questionnaire_data, "context", ""),
                                               urgency_level, methods)
    IN  [strategy EXCEPT
            !.search_keywords = keywords,
            !.target = [strategy.target EXCEPT
                           !.context = get(questionnaire_data, "context", "general_research"),
                           !.geographic_focus = chars(geographic_info.primary_location),
                           !.priority_data =
                               words(get(questionnaire_data, "data_priorities",
                                         {"contact_info"}))]
                       @@ [primary_identifier |-> user_input,
                           intelligence_scope |-> geographic_info.scope]]

\* Calls of analyze_target_and_strategize the model follows
MaxAnalyses == 2

UserInputs ==
    {chars(text) : text \in {"Hotels in Riyadh", "unemployed developers Jeddah",
                             "catering services Dubai", "solar research gulf",
                             "Company.com", "AI research", "Saudi delivery staff", "",
                             "freelancers for retail shops", "catering companies in Dubai",
                             "law firms blockchain", "solar.com"}}

QuestionnaireData ==
    { <<>>,
      [context |-> "recruitment", urgency |-> "immediate"],
      [context |-> "lead_generation", search_depth |-> "comprehensive",
       urgency |-> "comprehensive", data_priorities |-> {"contact_info", "decision_makers"}] }

\* One call of analyze_target_and_strategize
Analyze(user_input, questionnaire_data) ==
    /\ Len(analyses) < MaxAnalyses
    /\ analyses' = Append(analyses,
                          [user_input |-> user_input,
                           questionnaire_data |-> questionnaire_data,
                           strategy |-> analyze_target_and_strategize(user_input,
                                                                      questionnaire_data,
                                                                      hash_seed)])
    /\ UNCHANGED <<hash_seed, plan_target, planned>>
    /\ UNCHANGED <<now, engine_vars, rank_vars, analyzer_vars, limiter_vars, intelligence_vars, proxy_vars, cleanup_vars>>

\* The program is started again: a new interpreter, with its own hash seed,
\* builds a new engine
NewProcess ==
    /\ analyses # <<>>
    /\ \E seed \in HashSeeds \ {hash_seed} : hash_seed' = seed
    /\ UNCHANGED <<analyses, plan_target, planned>>
    /\ UNCHANGED <<now, engine_vars, rank_vars, analyzer_vars, limiter_vars, intelligence_vars, proxy_vars, cleanup_vars>>

PlanInit ==
    /\ hash_seed \in HashSeeds
    /\ analyses = <<>>
    /\ plan_target = None
    /\ planned = None
    /\ now = 0
    /\ active_investigations = <<>>
    /\ calls = <<>>
    /\ raw_results = <<>>
    /\ rank_strategy = None
    /\ ranked = <<>>
    /\ reranked = <<>>
    /\ rank_pc = "off"
    /\ AnalyzerOff /\ LimiterOff /\ IntelligenceOff /\ ProxyOff /\ CleanupOff

PlanNext ==
    \/ \E user_input \in UserInputs, questionnaire_data \in QuestionnaireData :
          Analyze(user_input, questionnaire_data)
    \/ NewProcess

SpecPlan == PlanInit /\ [][PlanNext]_vars

\* _create_discovery_strategy applied to any target: every target type,
\* search depth, context and urgency, 'urgent' standing for an urgency that
\* is not a key of total_time_map
AllSearchDepths == {"quick", "standard", "comprehensive"}

PlanTargets ==
    [target_type : TargetType, search_depth : AllSearchDepths,
     context : Contexts,
     urgency_level : Urgencies \cup {"urgent"}]

CreateStrategy ==
    /\ plan_target # None
    /\ planned = None
    /\ LET target == plan_target[1]
           methods == list_of_set(hash_seed,
                                  _select_collection_methods(target.target_type,
                                                             target.search_depth))
       IN  planned' = Some(_create_discovery_strategy(target.target_type, target.search_depth,
                                                      target.context, target.urgency_level,
                                                      methods))
    /\ UNCHANGED <<hash_seed, analyses, plan_target>>
    /\ UNCHANGED <<now, engine_vars, rank_vars, analyzer_vars, limiter_vars, intelligence_vars, proxy_vars, cleanup_vars>>

StrategyInit ==
    /\ hash_seed \in HashSeeds
    /\ analyses = <<>>
    /\ \E target \in PlanTargets : plan_target = Some(target)
    /\ planned = None
    /\ now = 0
    /\ active_investigations = <<>>
    /\ calls = <<>>
    /\ raw_results = <<>>
    /\ rank_strategy = None
    /\ ranked = <<>>
    /\ reranked = <<>>
    /\ rank_pc = "off"
    /\ AnalyzerOff /\ LimiterOff /\ IntelligenceOff /\ ProxyOff /\ CleanupOff

StrategyNext == CreateStrategy

SpecStrategy == StrategyInit /\ [][StrategyNext]_vars

----------------------------------------------------------------------------
(* Properties of target analysis, checked under SpecPlan (C11) and under   *)
(* SpecStrategy (C12, C13).                                                *)

\* C11 as stated: two calls of analyze_target_and_strategize with the same
\* raw string and the same context map, whatever happens in between, return
\* the same target type (a member of TargetType), the same geographic focus
\* and scope, the same keyword list and the same list of collection methods.
C11_AnalysisReproducible ==
    \A i, j \in 1..Len(analyses) :
        (/\ analyses[i].user_input = analyses[j].user_input
         /\ analyses[i].questionnaire_data = analyses[j].questionnaire_data) =>
            LET a == analyses[i].strategy
                b == analyses[j].strategy
            IN  /\ a.target.target_type \in TargetType
                /\ a.target.target_type = b.target.target_type
                /\ a.target.geographic_focus = b.target.geographic_focus
                /\ a.target.intelligence_scope = b.target.intelligence_scope
                /\ a.search_keywords = b.search_keywords
                /\ a.collection_methods = b.collection_methods

\* The totals C12 names, in minutes
ClaimedTotalTime(urgency_level) ==
    CASE urgency_level = "immediate" -> 15
      [] urgency_level = "standard" -> 30
      [] urgency_level = "comprehensive" -> 60

RECURSIVE SumOver(_, _)
SumOver(f, S) ==
    IF S = {} THEN 0
    ELSE LET x == CHOOSE y \in S : TRUE IN f[x] + SumOver(f, S \ {x})

\* C12 as stated: in every planned strategy all selected sources have the
\* same budget in time_allocation, and the budgets sum to the total of the
\* urgency (immediate 15, standard 30, comprehensive 60).
C12_BudgetsSumToTotal ==
    (planned # None /\ plan_target[1].urgency_level \in Urgencies) =>
        LET strategy == planned[1]
            selected == Range(strategy.collection_methods)
        IN  /\ DOMAIN strategy.time_allocation = selected
            /\ \A m, n \in selected : strategy.time_allocation[m] = strategy.time_allocation[n]
            /\ SumOver(strategy.time_allocation, selected)
                   = ClaimedTotalTime(plan_target[1].urgency_level)

\* The selection C13 names
ClaimedMethods(target_type, search_depth) ==
    {"search_engines"}
    \cup (IF target_type \in {"people_group", "professional_category"}
          THEN {"social_media", "job_portals"} ELSE {})
    \cup (IF target_type \in {"business_category", "service_providers"}
          THEN {"business_directories", "social_media"} ELSE {})
    \cup (IF target_type = "domain_entity" \/ search_depth = "comprehensive"
          THEN {"specialized_tools"} ELSE {})

\* C13: for every target type and search depth, the collection methods of the
\* planned strategy are search_engines, plus social_media and job_portals for
\* people-group and professional-category, plus business_directories and
\* social_media for business-category and service-providers, plus
\* specialized_tools for domain-entity and for search depth comprehensive;
\* nothing else, and no method twice.
C13_SelectedMethods ==
    planned # None =>
        LET methods == planned[1].collection_methods
        IN  /\ Range(methods) = ClaimedMethods(plan_target[1].target_type,
                                               plan_target[1].search_depth)
            /\ Cardinality(Range(methods)) = Len(methods)

\* C13 witness: a strategy planned for a people-group target at search depth
\* comprehensive, with four methods
C13_Witness ==
    /\ planned # None
    /\ plan_target[1].target_type = "people_group"
    /\ plan_target[1].search_depth = "comprehensive"
    /\ Len(planned[1].collection_methods) = 4
    /\ "specialized_tools" \in Range(planned[1].collection_methods)

----------------------------------------------------------------------------
(* Personnel analysis: PersonnelAnalyzer of core/ai_analyzer.py.           *)

\* The base score of _calculate_importance_score and what it adds for
\* 'senior', 'lead' and 'principal'
BaseScore == 10
SeniorBonus == 10
LeadBonus == 8
PrincipalBonus == 12

\* _initialize_role_hierarchy
role_hierarchy ==
    { <<"ceo", 100>>, <<"chief executive", 100>>, <<"president", 95>>, <<"founder", 90>>,
      <<"cto", 85>>, <<"cfo", 85>>, <<"coo", 85>>, <<"chief", 80>>,
      <<"vice president", 75>>, <<"vp", 75>>, <<"director", 70>>, <<"head of", 65>>,
      <<"senior manager", 60>>, <<"manager", 50>>, <<"lead", 45>>, <<"senior", 40>>,
      <<"coordinator", 30>>, <<"specialist", 25>>, <<"analyst", 20>>, <<"associate", 15>> }

\* _initialize_decision_maker_patterns, as far as _assess_decision_power
\* reads it
executive_patterns == {"ceo", "president", "founder", "chief executive", "managing director"}
senior_management_patterns == {"cto", "cfo", "coo", "vp", "vice president", "director"}
department_heads_patterns == {"head of", "department manager", "team lead", "senior manager"}

\* any(pattern in title for pattern in patterns)
any_in(patterns, title) == \E pattern \in patterns : contains(title, chars(pattern))

\* _calculate_importance_score
_calculate_importance_score(title) ==
    SetMax({BaseScore} \cup {role[2] : role \in {r \in role_hierarchy : contains(title, chars(r[1]))}})
    + (IF contains(title, chars("senior")) THEN SeniorBonus ELSE 0)
    + (IF contains(title, chars("lead")) THEN LeadBonus ELSE 0)
    + (IF contains(title, chars("principal")) THEN PrincipalBonus ELSE 0)

\* _assess_decision_power
_assess_decision_power(title) ==
    IF any_in(executive_patterns, title) THEN "high"
    ELSE IF any_in(senior_management_patterns, title) THEN "medium-high"
    ELSE IF any_in(department_heads_patterns, title) THEN "medium"
    ELSE "low"

\* sorted(classified, key=lambda x: x['importance_score'], reverse=True):
\* descending and stable
sorted_by_importance(classified) ==
    LET n == Len(classified)
        place == [i \in 1..n |->
                    1 + Cardinality({j \in 1..n : classified[j].importance_score
                                                     > classified[i].importance_score})
                      + Cardinality({j \in 1..(i - 1) : classified[j].importance_score
                                                           = classified[i].importance_score})]
        at == [p \in 1..n |-> CHOOSE i \in 1..n : place[i] = p]
    IN  [p \in 1..n |-> classified[at[p]]]

\* _classify_personnel
_classify_personnel(data) ==
    sorted_by_importance(
        [i \in 1..Len(data) |->
            LET title == lower(data[i].title)
            IN  [name |-> data[i].name,
                 title |-> data[i].title,
                 normalized_title |-> title,
                 importance_score |-> _calculate_importance_score(title),
                 decision_power |-> _assess_decision_power(title)]])

\* decision_makers[:15] and classified_personnel[:10]
DecisionMakersCap == 15
KeyPersonnelCap == 10

\* _identify_decision_makers
_identify_decision_makers(classified_personnel) ==
    head(SelectSeq(classified_personnel,
                   LAMBDA person : person.decision_power \in {"high", "medium-high"}),
         DecisionMakersCap)

\* analyze_personnel_structure: the lists of persons it returns and, for a
\* list that is not empty, their number; the dictionary it returns for an
\* empty list has no key total_personnel_found
analyze_personnel_structure(data) ==
    IF data = <<>>
    THEN [decision_makers |-> <<>>, key_personnel |-> <<>>]
    ELSE LET classified_personnel == _classify_personnel(data)
         IN  [decision_makers |-> _identify_decision_makers(classified_personnel),
              key_personnel |-> head(classified_personnel, KeyPersonnelCap),
              total_personnel_found |-> Len(data)]

\* Longest personnel list of the model
MaxPersonnel == 2

Titles ==
    {"Chief Executive Officer", "Sales Coordinator", "CEO", "Manager", "Senior Manager",
     "Principal Lead Senior Manager", "Senior Principal Factory Manager", "Director of IT",
     "VP Sales", "Analyst", ""}

Persons == {[name |-> title, title |-> chars(title)] : title \in Titles}

AnalyzePersonnel ==
    /\ personnel_analysis = None
    /\ personnel_analysis' = Some(analyze_personnel_structure(personnel_data))
    /\ UNCHANGED <<personnel_data, email_analyses>>
    /\ UNCHANGED <<now, engine_vars, rank_vars, plan_vars, limiter_vars, intelligence_vars, proxy_vars, cleanup_vars>>

PersonnelInit ==
    /\ personnel_data \in SeqsUpTo(Persons, MaxPersonnel)
    /\ personnel_analysis = None
    /\ email_analyses = <<>>
    /\ now = 0
    /\ active_investigations = <<>>
    /\ calls = <<>>
    /\ raw_results = <<>>
    /\ rank_strategy = None
    /\ ranked = <<>>
    /\ reranked = <<>>
    /\ rank_pc = "off"
    /\ PlanOff /\ LimiterOff /\ IntelligenceOff /\ ProxyOff /\ CleanupOff

PersonnelNext == AnalyzePersonnel

SpecPersonnel == PersonnelInit /\ [][PersonnelNext]_vars

----------------------------------------------------------------------------
(* Properties of personnel analysis, checked under SpecPersonnel.          *)

\* The title names the role: the role's words stand in the title as whole
\* words, in any letter case
NamesRole(title, roles) == word_spans(lower(title), roles) # {}

\* C14 as stated: analyze_personnel_structure puts a person in
\* decision_makers exactly when the person's title names an executive or
\* senior-management role ('Chief Executive Officer' is in, 'Sales
\* Coordinator' is not).
C14_DecisionMakersByRole ==
    personnel_analysis # None =>
        \A i \in 1..Len(personnel_data) :
            (\E k \in 1..Len(personnel_analysis[1].decision_makers) :
                personnel_analysis[1].decision_makers[k].name = personnel_data[i].name)
            <=> NamesRole(personnel_data[i].title,
                          executive_patterns \cup senior_management_patterns)

\* The roles of the role table above Manager, other than Manager with the
\* modifier senior
HigherRoles ==
    {"ceo", "chief executive", "president", "founder", "cto", "cfo", "coo", "chief",
     "vice president", "vp", "director", "head of"}

\* C15 as stated: when one title carries the role CEO and another carries the
\* role Manager and no higher role, whatever modifier words they hold, the CEO
\* title has the strictly greater importance score and stands before the
\* Manager title in key_personnel.
C15_CeoOutranksManager ==
    personnel_analysis # None =>
        LET key_personnel == personnel_analysis[1].key_personnel
        IN  \A i, j \in 1..Len(key_personnel) :
                (/\ NamesRole(key_personnel[i].title, {"ceo"})
                 /\ NamesRole(key_personnel[j].title, {"manager"})
                 /\ ~NamesRole(key_personnel[j].title, HigherRoles)) =>
                    /\ key_personnel[i].importance_score > key_personnel[j].importance_score
                    /\ i < j

----------------------------------------------------------------------------
(* Contact quality: ContactQualityAnalyzer._analyze_emails of              *)
(* core/ai_analyzer.py.  quality_score is in thousandths.                  *)

\* email_patterns of ContactQualityAnalyzer
personal_domains == {"gmail.com", "yahoo.com", "hotmail.com", "outlook.com"}
suspicious_patterns == {"noreply", "donotreply", "test", "temp"}
email_executive_patterns == {"ceo@", "president@", "founder@", "director@"}

\* The weights of _calculate_email_quality and its upper clamp, in thousandths
BusinessWeight == 800
ExecutiveWeight == 1000
SuspiciousWeight == 500
QualityCap == 1000

\* _categorize_email for one address: what it adds to each count
_categorize_email(email) ==
    [business_emails |-> IF any_in(personal_domains, email) THEN 0 ELSE 1,
     personal_emails |-> IF any_in(personal_domains, email) THEN 1 ELSE 0,
     suspicious_emails |-> IF any_in(suspicious_patterns, email) THEN 1 ELSE 0,
     executive_emails |-> IF any_in(email_executive_patterns, email) THEN 1 ELSE 0]

\* _calculate_email_quality: max(0, min(1, quality_score))
_calculate_email_quality(counts, total_emails) ==
    LET quality_score == (counts.business_emails * BusinessWeight
                          + counts.executive_emails * ExecutiveWeight
                          - counts.suspicious_emails * SuspiciousWeight) \div total_emails
    IN  IF quality_score < 0 THEN 0 ELSE Min2(QualityCap, quality_score)

\* _analyze_emails
_analyze_emails(data) ==
    LET emails == SelectSeq(data, LAMBDA item : item.type = "email")
        added == [i \in 1..Len(emails) |-> _categorize_email(lower(emails[i].value))]
        count(field) == Cardinality({i \in 1..Len(emails) : added[i][field] = 1})
        counts == [field \in {"business_emails", "personal_emails", "suspicious_emails",
                              "executive_emails"} |-> count(field)]
    IN  IF emails = <<>>
        THEN [total_emails |-> 0, quality_score |-> 0, business_emails |-> 0]
        ELSE [total_emails |-> Len(emails),
              business_emails |-> counts.business_emails,
              personal_emails |-> counts.personal_emails,
              suspicious_emails |-> counts.suspicious_emails,
              executive_emails |-> counts.executive_emails,
              quality_score |-> _calculate_email_quality(counts, Len(emails))]

\* Longest contact list of the model, and the calls of _analyze_emails it follows
MaxContacts == 2
MaxEmailAnalyses == 2

ContactItems ==
    {[type |-> "email", value |-> chars(address)] :
        address \in {"bob@gmail.com", "ceo@gmail.com", "Ann@Yahoo.com", "info@acme.com",
                     "ceo@acme.sa", "test@acme.org"}}
    \cup {[type |-> "phone", value |-> chars("+966512345678")]}

AnalyzeEmails(data) ==
    /\ Len(email_analyses) < MaxEmailAnalyses
    /\ email_analyses' = Append(email_analyses,
                                [contact_data |-> data, analysis |-> _analyze_emails(data)])
    /\ UNCHANGED <<personnel_data, personnel_analysis>>
    /\ UNCHANGED <<now, engine_vars, rank_vars, plan_vars, limiter_vars, intelligence_vars, proxy_vars, cleanup_vars>>

ContactsInit ==
    /\ personnel_data = <<>>
    /\ personnel_analysis = None
    /\ email_analyses = <<>>
    /\ now = 0
    /\ active_investigations = <<>>
    /\ calls = <<>>
    /\ raw_results = <<>>
    /\ rank_strategy = None
    /\ ranked = <<>>
    /\ reranked = <<>>
    /\ rank_pc = "off"
    /\ PlanOff /\ LimiterOff /\ IntelligenceOff /\ ProxyOff /\ CleanupOff

ContactsNext == \E data \in SeqsUpTo(ContactItems, MaxContacts) : AnalyzeEmails(data)

SpecContacts == ContactsInit /\ [][ContactsNext]_vars

----------------------------------------------------------------------------
(* Properties of contact quality, checked under SpecContacts.              *)

\* The part of an address after its last '@', in lower case
DomainOf(address) ==
    LET at == {i \in 1..Len(address) : address[i] = "@"}
    IN  IF at = {} THEN <<>> ELSE lower(SubSeq(address, SetMax(at) + 1, Len(address)))

\* A list of n >= 1 email addresses, all on personal domains / none on one
AllPersonal(data) ==
    /\ data # <<>>
    /\ \A i \in 1..Len(data) :
          data[i].type = "email" /\ DomainOf(data[i].value) \in words(personal_domains)

AllBusiness(data) ==
    /\ data # <<>>
    /\ \A i \in 1..Len(data) :
          data[i].type = "email" /\ DomainOf(data[i].value) \notin words(personal_domains)

\* C16 as stated: for email sets of the same size n >= 1, one all on personal
\* domains and one all on business domains, _analyze_emails reports
\* business_emails = 0 for the personal set and a quality_score strictly
\* lower than that of the business set.
C16_PersonalBelowBusiness ==
    \A i, j \in 1..Len(email_analyses) :
        (/\ AllPersonal(email_analyses[i].contact_data)
         /\ AllBusiness(email_analyses[j].contact_data)
         /\ Len(email_analyses[i].contact_data) = Len(email_analyses[j].contact_data)) =>
            /\ email_analyses[i].analysis.business_emails = 0
            /\ email_analyses[i].analysis.quality_score
                   < email_analyses[j].analysis.quality_score

----------------------------------------------------------------------------
(* Properties of collection outcomes, checked under SpecOutcomes.          *)

\* Every collector of the call raised or returned an empty list
FoundNothing(tasks) ==
    \A k \in 1..Len(tasks) :
        \/ tasks[k].state = "raised"
        \/ tasks[k].state = "returned" /\ tasks[k].result = <<>>

----------------------------------------------------------------------------
(* BusinessTypeClassifier (src/core/ai_analyzer.py).                       *)

\* _initialize_business_patterns, in the order of the dict; confidence_weight
\* in hundredths
business_types ==
    <<"technology", "healthcare", "finance", "retail", "hospitality", "manufacturing",
      "consulting", "education">>

classifier_patterns ==
    [technology |->
        [keywords |-> <<"software", "tech", "IT", "digital", "app", "platform", "AI",
                        "machine learning", "cloud", "SaaS">>,
         indicators |-> <<"developer", "engineer", "CTO", "technical", "programming",
                          "coding", "development">>,
         confidence_weight |-> 100],
     healthcare |->
        [keywords |-> <<"medical", "health", "clinic", "hospital", "pharmaceutical",
                        "biotech", "healthcare">>,
         indicators |-> <<"doctor", "nurse", "medical director", "physician", "therapist",
                          "specialist">>,
         confidence_weight |-> 95],
     finance |->
        [keywords |-> <<"bank", "financial", "investment", "insurance", "fintech",
                        "trading", "capital">>,
         indicators |-> <<"CFO", "financial advisor", "analyst", "banker", "trader",
                          "accountant">>,
         confidence_weight |-> 90],
     retail |->
        [keywords |-> <<"retail", "store", "shop", "commerce", "sales", "merchandise",
                        "fashion">>,
         indicators |-> <<"sales manager", "store manager", "merchandiser", "buyer",
                          "cashier">>,
         confidence_weight |-> 85],
     hospitality |->
        [keywords |-> <<"hotel", "restaurant", "tourism", "travel", "hospitality",
                        "catering", "resort">>,
         indicators |-> <<"chef", "manager", "receptionist", "concierge", "waiter", "host">>,
         confidence_weight |-> 90],
     manufacturing |->
        [keywords |-> <<"manufacturing", "factory", "production", "industrial",
                        "supply chain", "logistics">>,
         indicators |-> <<"production manager", "engineer", "operator", "supervisor",
                          "quality control">>,
         confidence_weight |-> 85],
     consulting |->
        [keywords |-> <<"consulting", "advisory", "strategy", "management",
                        "professional services">>,
         indicators |-> <<"consultant", "advisor", "partner", "principal", "analyst",
                          "strategist">>,
         confidence_weight |-> 80],
     education |->
        [keywords |-> <<"education", "training", "university", "school", "learning",
                        "academic">>,
         indicators |-> <<"teacher", "professor", "instructor", "principal", "dean",
                          "educator">>,
         confidence_weight |-> 85]]

\* text_fields of _extract_text_content, in the order they are read
text_fields == <<"value", "description", "bio", "title", "snippet", "content", "name">>

\* ' '.join(text_parts)
RECURSIVE join(_)
join(text_parts) ==
    IF text_parts = <<>> THEN <<>>
    ELSE IF Len(text_parts) = 1 THEN text_parts[1]
    ELSE text_parts[1] \o <<" ">> \o join(Tail(text_parts))

RECURSIVE concat(_)
concat(lists) == IF lists = <<>> THEN <<>> ELSE Head(lists) \o concat(Tail(lists))

\* _extract_text_content: the non-empty text fields of every data point, in
\* order, joined by blanks and lower-cased
_extract_text_content(data_points) ==
    LET parts_of(data_point) ==
            LET present == SelectSeq(text_fields,
                                     LAMBDA field : /\ field \in DOMAIN data_point
                                                    /\ data_point[field] # <<>>)
            IN  [k \in 1..Len(present) |-> data_point[present[k]]]
    IN  lower(join(concat([i \in 1..Len(data_points) |-> parts_of(data_points[i])])))

\* sum(1 for keyword in keywords if keyword in text)
matches(text, keywords) ==
    Cardinality({k \in 1..Len(keywords) : contains(text, chars(keywords[k]))})

\* Scores are kept as whole numbers of 1 / (10 x CommonLength), CommonLength
\* being a common multiple of the lengths 5, 6, 7 and 10 of the keyword and
\* indicator lists
CommonLength == 2 * 3 * 5 * 7

\* Mutant of _calculate_business_type_score: the score is multiplied by the
\* type's confidence weight
_calculate_business_type_score_weighted(text, patterns) ==
    (6 * matches(text, patterns.keywords) * (CommonLength \div Len(patterns.keywords))
     + 4 * matches(text, patterns.indicators) * (CommonLength \div Len(patterns.indicators)))
    * patterns.confidence_weight

\* _calculate_business_type_score: 0.6 x keyword fraction + 0.4 x indicator
\* fraction, divided by the total weight 1.0
_calculate_business_type_score(text, patterns) ==
    6 * matches(text, patterns.keywords) * (CommonLength \div Len(patterns.keywords))
    + 4 * matches(text, patterns.indicators) * (CommonLength \div Len(patterns.indicators))

\* classify_business_type: the type and the confidence it returns, and the
\* scores it computed; the confidence is in hundredths of a score unit
classify_business_type(data_points) ==
    LET combined_text == _extract_text_content(data_points)
        type_scores == [t \in Range(business_types) |->
                           _calculate_business_type_score(combined_text,
                                                          classifier_patterns[t])]
        \* max(type_scores, key=type_scores.get): the first key with the largest score
        best == CHOOSE k \in 1..Len(business_types) :
                    /\ \A j \in 1..Len(business_types) :
                           type_scores[business_types[j]] <= type_scores[business_types[k]]
                    /\ \A j \in 1..(k - 1) :
                           type_scores[business_types[j]] < type_scores[business_types[k]]
        best_type == business_types[best]
    IN  [business_type |-> best_type,
         confidence |-> type_scores[best_type] * classifier_patterns[best_type].confidence_weight,
         type_scores |-> type_scores]

\* Longest list of data points
MaxDataPoints == 3

DataPoints ==
    { [value |-> chars("Cloud software")],
      [value |-> chars("Developer"), title |-> chars("Engineer")],
      [value |-> chars("management consultant advisor")],
      [name |-> chars("Hotel"), description |-> chars("chef and host")],
      [value |-> chars("IT AI SaaS")],
      [value |-> <<>>] }

\* One call of classify_business_type, which keeps no state between calls
ClassifyBusiness(data_points) ==
    /\ classifications = <<>>
    /\ classifications' = Append(classifications,
                                 [data_points |-> data_points,
                                  result |-> classify_business_type(data_points)])
    /\ UNCHANGED <<batch_analyses, now, engine_vars, rank_vars, plan_vars, analyzer_vars,
                   limiter_vars, proxy_vars, cleanup_vars>>

ClassifierInit ==
    /\ now = 0
    /\ active_investigations = <<>>
    /\ calls = <<>>
    /\ raw_results = <<>>
    /\ rank_strategy = None
    /\ ranked = <<>>
    /\ reranked = <<>>
    /\ rank_pc = "off"
    /\ PlanOff /\ AnalyzerOff /\ LimiterOff /\ IntelligenceOff /\ ProxyOff /\ CleanupOff

ClassifierNext ==
    \E data_points \in SeqsUpTo(DataPoints, MaxDataPoints) : ClassifyBusiness(data_points)

SpecClassifier == ClassifierInit /\ [][ClassifierNext]_vars

----------------------------------------------------------------------------
(* IntelligenceAnalyzer.analyze_intelligence_batch of core/ai_analyzer.py: *)
(* the business type, the personnel fields and the intelligence gaps of    *)
(* the analysis it builds.  Quality scores are in thousandths.             *)

\* _organize_data_by_type
_organize_data_by_type(results) ==
    [data_type \in {results[i].data_type : i \in 1..Len(results)} |->
        SelectSeq(results, LAMBDA item : item.data_type = data_type)]

\* organized_data.get(key, [])
get_list(organized_data, key) ==
    IF key \in DOMAIN organized_data THEN organized_data[key] ELSE <<>>

IsDigit(c) == \E i \in 1..Len(Digits) : Digits[i] = c

AllDigits(s) == \A i \in 1..Len(s) : IsDigit(s[i])

\* re.sub(r'[^\d+]', '', phone) of the stripped value
cleaned_phone(phone) == SelectSeq(strip(phone), LAMBDA c : IsDigit(c) \/ c = "+")

\* The text after an optional leading plus sign
after_plus(s) == IF s # <<>> /\ s[1] = "+" THEN Tail(s) ELSE s

\* phone_patterns
saudi_mobile(s) ==
    LET t == after_plus(s)
    IN  Len(t) = 12 /\ AllDigits(t) /\ SubSeq(t, 1, 4) = chars("9665")

saudi_landline(s) ==
    LET t == after_plus(s)
    IN  Len(t) = 11 /\ AllDigits(t) /\ SubSeq(t, 1, 3) = chars("966")
            /\ t[4] \in {"1", "2", "3", "4"}

uae_mobile(s) ==
    LET t == after_plus(s)
    IN  Len(t) = 12 /\ AllDigits(t) /\ SubSeq(t, 1, 4) = chars("9715")

international(s) ==
    /\ Len(s) >= 3 /\ Len(s) <= 16
    /\ s[1] = "+"
    /\ AllDigits(Tail(s))
    /\ s[2] # "0"

\* _analyze_phones: the share of the phone numbers that match a pattern
_analyze_phones(data) ==
    LET phones == SelectSeq(data, LAMBDA item : item.type = "phone")
        valid(phone) ==
            LET cleaned == cleaned_phone(phone)
            IN  saudi_mobile(cleaned) \/ saudi_landline(cleaned)
                    \/ uae_mobile(cleaned) \/ international(cleaned)
        valid_format_count == Cardinality({i \in 1..Len(phones) : valid(phones[i].value)})
    IN  IF phones = <<>>
        THEN [total_phones |-> 0, quality_score |-> 0]
        ELSE [total_phones |-> Len(phones),
              quality_score |-> (valid_format_count * QualityCap) \div Len(phones)]

\* The weights of _calculate_overall_quality, in thousandths
EmailWeight == 600
PhoneWeight == 400

\* _calculate_overall_quality
_calculate_overall_quality(email_analysis, phone_analysis) ==
    (email_analysis.quality_score * EmailWeight
     + phone_analysis.quality_score * PhoneWeight) \div QualityCap

\* analyze_contact_quality, with _get_empty_analysis for an empty list
analyze_contact_quality(contact_data) ==
    IF contact_data = <<>>
    THEN [email_analysis |-> [total_emails |-> 0, quality_score |-> 0, business_emails |-> 0],
          phone_analysis |-> [total_phones |-> 0, quality_score |-> 0],
          overall_quality_score |-> 0]
    ELSE LET email_analysis == _analyze_emails(contact_data)
             phone_analysis == _analyze_phones(contact_data)
         IN  [email_analysis |-> email_analysis,
              phone_analysis |-> phone_analysis,
              overall_quality_score |->
                  _calculate_overall_quality(email_analysis, phone_analysis)]

\* The thresholds of _generate_comprehensive_insights: decision makers, and
\* contact quality in thousandths
ManyDecisionMakers == 5
HighContactQuality == 700
ModerateContactQuality == 400

\* _generate_comprehensive_insights: the intelligence gaps (personnel_structure
\* is its parameter personnel_analysis)
_generate_comprehensive_insights(personnel_structure, contact_analysis) ==
    LET decision_makers_count == Len(personnel_structure.decision_makers)
        contact_quality == contact_analysis.overall_quality_score
    IN  [intelligence_gaps |->
            (IF decision_makers_count > ManyDecisionMakers THEN <<>>
             ELSE IF decision_makers_count > 0
             THEN <<"Additional research needed to identify more decision makers">>
             ELSE <<>>)
            \o (IF contact_quality > HighContactQuality THEN <<>>
                ELSE IF contact_quality > ModerateContactQuality THEN <<>>
                ELSE <<"Additional contact research required">>)]

\* analyze_intelligence_batch: the analysis it returns, or the exception that
\* reading personnel_analysis['total_personnel_found'] raises
analyze_intelligence_batch(results) ==
    LET organized_data == _organize_data_by_type(results)
        personnel_structure ==
            analyze_personnel_structure(get_list(organized_data, "person_profiles"))
        contact_analysis ==
            analyze_contact_quality(get_list(organized_data, "contact_info"))
        insights == _generate_comprehensive_insights(personnel_structure, contact_analysis)
    IN  IF "total_personnel_found" \notin DOMAIN personnel_structure
        THEN [raised |-> Some("KeyError")]
        ELSE [raised |-> None,
              business_type |-> classify_business_type(results).business_type,
              decision_makers |-> personnel_structure.decision_makers,
              key_personnel |-> personnel_structure.key_personnel,
              personnel_count_estimate |-> personnel_structure.total_personnel_found,
              intelligence_gaps |-> insights.intelligence_gaps,
              total_data_points |-> Len(results)]

\* Longest batch of the model
MaxBatch == 3

BatchItems ==
    { [data_type |-> "person_profiles", name |-> chars("Ann"), title |-> chars("CEO")],
      [data_type |-> "person_profiles", name |-> chars("Bob"), title |-> chars("Analyst")],
      [data_type |-> "contact_info", type |-> "email", value |-> chars("ceo@acme.sa")],
      [data_type |-> "contact_info", type |-> "email", value |-> chars("bob@gmail.com")],
      [data_type |-> "contact_info", type |-> "phone", value |-> chars("+966 51 234 5678")],
      [data_type |-> "contact_info", type |-> "phone", value |-> chars("12345")],
      [data_type |-> "business_info", value |-> chars("Cloud software")] }

\* One call of analyze_intelligence_batch, which keeps no state between calls
AnalyzeBatch(results) ==
    /\ batch_analyses = <<>>
    /\ batch_analyses' = Append(batch_analyses,
                                [results |-> results,
                                 analysis |-> analyze_intelligence_batch(results)])
    /\ UNCHANGED <<classifications, now, engine_vars, rank_vars, plan_vars, analyzer_vars,
                   limiter_vars, proxy_vars, cleanup_vars>>

BatchInit ==
    /\ now = 0
    /\ active_investigations = <<>>
    /\ calls = <<>>
    /\ raw_results = <<>>
    /\ rank_strategy = None
    /\ ranked = <<>>
    /\ reranked = <<>>
    /\ rank_pc = "off"
    /\ PlanOff /\ AnalyzerOff /\ LimiterOff /\ IntelligenceOff /\ ProxyOff /\ CleanupOff

BatchNext == \E results \in SeqsUpTo(BatchItems, MaxBatch) : AnalyzeBatch(results)

SpecBatch == BatchInit /\ [][BatchNext]_vars

\* A batch with no record of a person
NoPersonRecords(results) ==
    \A i \in 1..Len(results) : results[i].data_type # "person_profiles"

\* C29: for a batch with no record of a person, the empty batch included,
\* analyze_intelligence_batch returns an analysis and does not raise; the
\* analysis has no decision makers, no key personnel, a personnel count of 0
\* and at least one intelligence gap.
C29_AnalysisWithoutPersons ==
    \A k \in 1..Len(batch_analyses) :
        NoPersonRecords(batch_analyses[k].results) =>
            LET analysis == batch_analyses[k].analysis
            IN  /\ analysis.raised = None
                /\ analysis.decision_makers = <<>>
                /\ analysis.key_personnel = <<>>
                /\ analysis.personnel_count_estimate = 0
                /\ analysis.intelligence_gaps # <<>>

----------------------------------------------------------------------------
(* Properties of business type classification, checked under               *)
(* SpecClassifier.                                                         *)

\* The weighted score of a type: its score times its confidence weight
Weighted(result, t) == result.type_scores[t] * classifier_patterns[t].confidence_weight

\* C24 as stated: the returned type has the largest weighted score (score x
\* confidence weight), no type has a strictly larger one, and the returned
\* confidence is that weighted score.
C24_MaximisesWeightedScore ==
    \A i \in 1..Len(classifications) :
        LET result == classifications[i].result
        IN  /\ \A t \in Range(business_types) :
                   Weighted(result, t) <= Weighted(result, result.business_type)
            /\ result.confidence = Weighted(result, result.business_type)

\* C24 amended: the returned type has the largest unweighted score, the
\* first such type in the order of the pattern table; the returned confidence
\* is that score times the returned type's confidence weight.
C24_MaximisesScoreThenWeighs ==
    \A i \in 1..Len(classifications) :
        LET result == classifications[i].result
            text == _extract_text_content(classifications[i].data_points)
            fraction_sum(t) ==
                6 * matches(text, classifier_patterns[t].keywords)
                  * Len(classifier_patterns[t].indicators)
                + 4 * matches(text, classifier_patterns[t].indicators)
                    * Len(classifier_patterns[t].keywords)
            lengths(t) == Len(classifier_patterns[t].keywords)
                          * Len(classifier_patterns[t].indicators)
            \* the score of t is fraction_sum(t) / (10 x lengths(t))
            NotAbove(t, u) == fraction_sum(t) * lengths(u) <= fraction_sum(u) * lengths(t)
            best == result.business_type
        IN  /\ \A t \in Range(business_types) : NotAbove(t, best)
            /\ \A j, k \in 1..Len(business_types) :
                   j < k /\ business_types[k] = best => ~NotAbove(best, business_types[j])
            /\ result.confidence * lengths(best)
                   = fraction_sum(best) * CommonLength
                     * classifier_patterns[best].confidence_weight

\* C24 witness: a classification in which the returned type is not the one
\* with the largest weighted score
C24_Witness ==
    \E i \in 1..Len(classifications) :
        LET result == classifications[i].result
        IN  /\ result.business_type = "consulting"
            /\ result.confidence > 0
            /\ Weighted(result, "technology") > Weighted(result, "consulting")
            /\ result.type_scores["technology"] < result.type_scores["consulting"]

----------------------------------------------------------------------------
(* RateLimiter (src/utils/rate_limiter.py). Time is in whole seconds.      *)
(* Callers are coroutines of one event loop: a call runs without           *)
(* interruption up to an asyncio.sleep, and from a sleep's end to the next *)
(* sleep or to its return. Callers in the same position are                *)
(* indistinguishable, so the suspended callers are kept as a bag.          *)

requests_per_minute == 30

delay_between_requests == 2

\* The length of the history window and of a full rate-limit wait
Window == 60

\* defaultdict(float): the last request time of a source never used
DefaultLastRequestTime == 0

\* time.time() counts from 1970, so the first call is further from
\* DefaultLastRequestTime than any window or delay
FirstCallTime == Window + delay_between_requests

Sources == {"google", "bing"}

\* The most calls made on one source, and on the other
MaxCallers == 60

MaxOtherCallers == 1

CallerLimit(source) == IF source = "google" THEN MaxCallers ELSE MaxOtherCallers

\* Calls are made in bursts, at these moments
CallTimes == {FirstCallTime, FirstCallTime + Window}

LastCallTime == FirstCallTime + Window

\* The number of calls made so far on a source: those suspended and those returned
SleepingOn(source) ==
    LET on == {c \in BagToSet(sleeping) : c.source = source}
    IN  BagCardinality([c \in on |-> sleeping[c]])

CallsMade(source) == SleepingOn(source) + Len(get(returned_at, source, <<>>))

\* Lines 28-29: drop the head of the history while it is older than the window
clear_old_history(history, current_time) ==
    LET cutoff == current_time - Window
        first_kept == CHOOSE k \in 1..(Len(history) + 1) :
                          /\ k = Len(history) + 1 \/ history[k] >= cutoff
                          /\ \A j \in 1..(k - 1) : history[j] < cutoff
    IN  SubSeq(history, first_kept, Len(history))

set_item(dict, key, value) ==
    [k \in DOMAIN dict \cup {key} |-> IF k = key THEN value ELSE dict[k]]

\* Lines 38-46 up to the sleep: current_time is the time read at entry, and
\* others are the callers that stay suspended
apply_adaptive_delay(source, current_time, others) ==
    LET last_time == get(last_request_time, source, DefaultLastRequestTime)
        time_since_last == current_time - last_time
    IN  IF time_since_last < delay_between_requests
        THEN /\ sleeping' = others (+) SetToBag({[source |-> source,
                                                  current_time |-> current_time,
                                                  stage |-> "delay",
                                                  wake |-> clock + (delay_between_requests - time_since_last)]})
             /\ UNCHANGED <<last_request_time, returned_at>>
        ELSE /\ sleeping' = others
             /\ last_request_time' = set_item(last_request_time, source, clock)
             /\ returned_at' = set_item(returned_at, source,
                                        Append(get(returned_at, source, <<>>), clock))

\* A call of wait_if_needed, from its entry to its first sleep or its return
wait_if_needed(source) ==
    LET current_time == clock
        history == clear_old_history(Append(get(request_history, source, <<>>), current_time),
                                     current_time)
        wait_time == Window - (current_time - history[1])
    IN  /\ clock \in CallTimes
        /\ CallsMade(source) < CallerLimit(source)
        /\ request_history' = set_item(request_history, source, history)
        /\ IF Len(history) >= requests_per_minute /\ wait_time > 0
           THEN /\ sleeping' = sleeping (+) SetToBag({[source |-> source,
                                                       current_time |-> current_time,
                                                       stage |-> "rate_limit",
                                                       wake |-> clock + wait_time]})
                /\ UNCHANGED <<last_request_time, returned_at>>
           ELSE apply_adaptive_delay(source, current_time, sleeping)
        /\ UNCHANGED <<clock, now, engine_vars, rank_vars, plan_vars, analyzer_vars,
                   intelligence_vars, proxy_vars, cleanup_vars>>

\* The sleep of line 36 ends: the call goes on to the delay of lines 38-46
RateLimitSleepEnds(c) ==
    /\ BagIn(c, sleeping)
    /\ c.stage = "rate_limit"
    /\ c.wake <= clock
    /\ apply_adaptive_delay(c.source, c.current_time, sleeping (-) SetToBag({c}))
    /\ UNCHANGED <<clock, request_history, now, engine_vars, rank_vars, plan_vars, analyzer_vars,
                   intelligence_vars, proxy_vars, cleanup_vars>>

\* The sleep of line 44 ends: line 46 and the return
DelaySleepEnds(c) ==
    /\ BagIn(c, sleeping)
    /\ c.stage = "delay"
    /\ c.wake <= clock
    /\ sleeping' = sleeping (-) SetToBag({c})
    /\ last_request_time' = set_item(last_request_time, c.source, clock)
    /\ returned_at' = set_item(returned_at, c.source,
                               Append(get(returned_at, c.source, <<>>), clock))
    /\ UNCHANGED <<clock, request_history, now, engine_vars, rank_vars, plan_vars, analyzer_vars,
                   intelligence_vars, proxy_vars, cleanup_vars>>

\* A second passes, once every caller whose sleep is over has run; time is
\* followed until the last burst and until every suspended caller returned
TimePasses ==
    /\ \A c \in BagToSet(sleeping) : c.wake > clock
    /\ clock < LastCallTime \/ sleeping # EmptyBag
    /\ clock' = clock + 1
    /\ UNCHANGED <<request_history, last_request_time, sleeping, returned_at,
                   now, engine_vars, rank_vars, plan_vars, analyzer_vars,
                   intelligence_vars, proxy_vars, cleanup_vars>>

LimiterInit ==
    /\ clock = FirstCallTime
    /\ request_history = <<>>
    /\ last_request_time = <<>>
    /\ sleeping = EmptyBag
    /\ returned_at = <<>>
    /\ now = 0
    /\ active_investigations = <<>>
    /\ calls = [d \in CallIds |-> IdleCall]
    /\ raw_results = <<>>
    /\ rank_strategy = None
    /\ ranked = <<>>
    /\ reranked = <<>>
    /\ rank_pc = "off"
    /\ PlanOff /\ AnalyzerOff /\ IntelligenceOff /\ ProxyOff /\ CleanupOff

LimiterNext ==
    \/ \E source \in Sources : wait_if_needed(source)
    \/ \E c \in BagToSet(sleeping) : RateLimitSleepEnds(c)
    \/ \E c \in BagToSet(sleeping) : DelaySleepEnds(c)
    \/ TimePasses

SpecLimiter == LimiterInit /\ [][LimiterNext]_vars

----------------------------------------------------------------------------
(* Properties of the rate limiter, checked under SpecLimiter.              *)

\* The number of returns of a source in the window of Window seconds from t
ReturnsInWindow(source, t) ==
    Cardinality({i \in DOMAIN returned_at[source] :
                     t <= returned_at[source][i] /\ returned_at[source][i] < t + Window})

\* C18: for every source, at most requests_per_minute calls return within
\* any rolling window of 60 seconds (it is enough to look at the windows
\* that start at a return).
C18_AtMostLimitPerWindow ==
    \A source \in DOMAIN returned_at :
        \A i \in DOMAIN returned_at[source] :
            ReturnsInWindow(source, returned_at[source][i]) <= requests_per_minute

\* C19: any two returns for one source are at least delay_between_requests
\* apart, and a caller is only ever suspended on account of its own source:
\* in the rate-limit sleep when that source's history is full, in the delay
\* sleep when a call for that source has returned before.
C19_ReturnsSpacedPerSource ==
    /\ \A source \in DOMAIN returned_at :
           \A i, j \in DOMAIN returned_at[source] :
               i < j => returned_at[source][j] - returned_at[source][i] >= delay_between_requests
    /\ \A c \in BagToSet(sleeping) :
           /\ c.stage = "rate_limit" =>
                  Len(get(request_history, c.source, <<>>)) >= requests_per_minute
           /\ c.stage = "delay" => c.source \in DOMAIN last_request_time

----------------------------------------------------------------------------
(* Properties of _remove_duplicates, checked under SpecRank on the list    *)
(* that _post_process_results was given.                                   *)

\* The first occurrence of each key of the list, in the list's order
FirstOccurrences(results, Key(_)) ==
    LET n == Len(results)
        key == [i \in 1..n |-> Key(results[i])] \o <<>>
        firsts == SelectSeq([i \in 1..n |-> i],
                            LAMBDA i : \A j \in 1..(i - 1) : key[j] # key[i])
    IN  [p \in 1..Len(firsts) |-> results[firsts[p]]] \o <<>>

\* The key as C20 words it: data-type + ':' + value, lower-cased and trimmed
\* as one text
LoweredTrimmedKey(result) == strip(lower(result.data_type \o <<":">> \o result.value))

\* The key with only the value lower-cased and trimmed
ValueNormalizedKey(result) == result.data_type \o <<":">> \o strip(lower(result.value))

----------------------------------------------------------------------------
(* Properties of the relevance score, checked under SpecRank. Scores are   *)
(* in thousandths and confidences in hundredths.                           *)

\* The lower-cased search keywords, and those that are words of the value
KeywordsOf(strategy) ==
    {lower(strategy.search_keywords[k]) : k \in 1..Len(strategy.search_keywords)}

KeywordsPresent(result, strategy) ==
    {w \in KeywordsOf(strategy) : w \in split_words(lower(result.value))}

\* The lower-cased words of the geographic focus, and those that are words
\* of the value
FocusWordsOf(strategy) ==
    {lower(w) : w \in split_words(strategy.target.geographic_focus)}

FocusWordsPresent(result, strategy) ==
    {w \in FocusWordsOf(strategy) : w \in split_words(lower(result.value))}

IsPriority(result, strategy) == result.data_type \in strategy.target.priority_data

IsRecent(result, today) ==
    result.timestamp # None /\ result.timestamp[1] > today - RecentDays

Clamp(low, high, x) == IF x < low THEN low ELSE IF x > high THEN high ELSE x

AtLeastOne(n) == IF n = 0 THEN 1 ELSE n

\* C21 as stated: the stored score is clamp01(confidence + 0.3 x fraction of
\* the keywords present + 0.2 x fraction of the focus words present + 0.5
\* for a priority data type + 0.1 for a recent timestamp). Both sides are
\* multiplied by the two denominators, so the fractions stay integers.
C21_ScoreIsClaimedFormula ==
    rank_pc # "input" =>
        \A p \in 1..Len(ranked) :
            LET r == ranked[p]
                K == AtLeastOne(Cardinality(KeywordsOf(rank_strategy)))
                G == AtLeastOne(Cardinality(FocusWordsOf(rank_strategy)))
                claimed == r.confidence * 10 * K * G
                           + 300 * Cardinality(KeywordsPresent(r, rank_strategy)) * G
                           + 200 * Cardinality(FocusWordsPresent(r, rank_strategy)) * K
                           + (IF IsPriority(r, rank_strategy) THEN 500 * K * G ELSE 0)
                           + (IF IsRecent(r, now) THEN 100 * K * G ELSE 0)
            IN  r.relevance_score * K * G = Clamp(0, 1000 * K * G, claimed)

\* C21 amended: the stored score is min(1, 0.3 x confidence + 0.3 x number of
\* keywords present + 0.2 x number of focus words present + 0.5 for a
\* priority data type + 0.1 for a timestamp less than 30 days old).
C21_ScoreIsWeightedCount ==
    rank_pc # "input" =>
        \A p \in 1..Len(ranked) :
            LET r == ranked[p]
                sum == 3 * r.confidence
                       + 300 * Cardinality(KeywordsPresent(r, rank_strategy))
                       + 200 * Cardinality(FocusWordsPresent(r, rank_strategy))
                       + (IF IsPriority(r, rank_strategy) THEN 500 ELSE 0)
                       + (IF IsRecent(r, now) THEN 100 ELSE 0)
            IN  r.relevance_score = (IF sum > 1000 THEN 1000 ELSE sum)

\* C21 witness: a ranked result holding one of two keywords, whose score is
\* above 0 and below the cap
C21_Witness ==
    /\ rank_pc = "ranked"
    /\ \E p \in 1..Len(ranked) :
          /\ Cardinality(KeywordsOf(rank_strategy)) = 2
          /\ Cardinality(KeywordsPresent(ranked[p], rank_strategy)) = 1
          /\ ranked[p].relevance_score > 0
          /\ ranked[p].relevance_score < ScoreCap

----------------------------------------------------------------------------
(* Properties of the source priorities, checked under SpecStrategy.        *)

DefaultPriorities ==
    [m \in Collectors |->
        CASE m = "search_engines" -> 10
          [] m = "social_media" -> 8
          [] m = "business_directories" -> 7
          [] m = "job_portals" -> 6
          [] m = "specialized_tools" -> 5]

\* C22 as stated: the priority map is the defaults, with job_portals 10 and
\* social_media 9 for context 'recruitment', business_directories 10 and
\* search_engines 9 for context 'lead_generation', and nothing else changes
\* a priority.
C22_PrioritiesByContextOnly ==
    planned # None =>
        LET context == plan_target[1].context
        IN  planned[1].source_priorities =
                [m \in Collectors |->
                    CASE context = "recruitment" /\ m = "job_portals" -> 10
                      [] context = "recruitment" /\ m = "social_media" -> 9
                      [] context = "lead_generation" /\ m = "business_directories" -> 10
                      [] context = "lead_generation" /\ m = "search_engines" -> 9
                      [] OTHER -> DefaultPriorities[m]]

PeopleTypes == {"people_group", "professional_category"}

BusinessTypes == {"business_category", "service_providers"}

\* C22 amended: a source's priority is the one its context sets, else the
\* one its target type sets (social_media 10 and job_portals 9 for the people
\* types, business_directories 10 and search_engines 9 for the business
\* types), else its default.
C22_PrioritiesByContextThenType ==
    planned # None =>
        LET context == plan_target[1].context
            target_type == plan_target[1].target_type
        IN  \A m \in Collectors :
                planned[1].source_priorities[m] =
                    CASE context = "recruitment" /\ m = "job_portals" -> 10
                      [] context = "recruitment" /\ m = "social_media" -> 9
                      [] context = "lead_generation" /\ m = "business_directories" -> 10
                      [] context = "lead_generation" /\ m = "search_engines" -> 9
                      [] target_type \in PeopleTypes /\ m = "social_media" -> 10
                      [] target_type \in PeopleTypes /\ m = "job_portals" -> 9
                      [] target_type \in BusinessTypes /\ m = "business_directories" -> 10
                      [] target_type \in BusinessTypes /\ m = "search_engines" -> 9
                      [] OTHER -> DefaultPriorities[m]

\* C22 witness: a strategy planned for a business-category target in context
\* 'recruitment': the type raised business_directories and lowered
\* search_engines, the context set job_portals and social_media
C22_Witness ==
    /\ planned # None
    /\ plan_target[1].target_type = "business_category"
    /\ plan_target[1].context = "recruitment"
    /\ planned[1].source_priorities["business_directories"] = 10
    /\ planned[1].source_priorities["search_engines"] = 9
    /\ planned[1].source_priorities["job_portals"] = 10
    /\ planned[1].source_priorities["social_media"] = 9

----------------------------------------------------------------------------
(* Properties of target type detection, checked under SpecPlan.            *)

\* The pattern groups in the order C23 gives, each with its category
GroupsInOrder ==
    << [patterns |-> people_patterns, category |-> "people_group"],
       [patterns |-> business_patterns, category |-> "business_category"],
       [patterns |-> service_patterns, category |-> "service_providers"],
       [patterns |-> topic_patterns, category |-> "topic_research"] >>

\* The groups with a pattern that matches the lower-cased text
MatchingGroups(user_input) ==
    {g \in 1..Len(GroupsInOrder) : any_pattern(GroupsInOrder[g].patterns, lower(user_input))}

----------------------------------------------------------------------------
(* Properties of the registry, checked under SpecCleanup (C25), under      *)
(* SpecRegistry (C26) and under SpecLifecycle (C27).                       *)

\* The entries a step deleted
Removed == DOMAIN active_investigations \ DOMAIN active_investigations'

\* C25: a call of cleanup_old_investigations(days) removes exactly the
\* entries whose start time is before now - days, returns their number, and
\* leaves every other entry as it was; no other step removes an entry.
C25_CleanupRemovesExactlyTheOld ==
    [][(last_cleanup' # last_cleanup \/ Removed # {}) =>
          /\ last_cleanup' # None
          /\ Removed = {inv_id \in DOMAIN active_investigations :
                           active_investigations[inv_id].start_time
                               < now - last_cleanup'[1].days}
          /\ last_cleanup'[1].cleaned_count = Cardinality(Removed)
          /\ DOMAIN active_investigations' = DOMAIN active_investigations \ Removed
          /\ \A inv_id \in DOMAIN active_investigations' :
                 active_investigations'[inv_id] = active_investigations[inv_id]]_vars

\* C25 witness: a clean-up returned 1, the entry of one call is gone, and the
\* entry of a call registered later is in the registry, completed, with its
\* results
C25_Witness ==
    /\ last_cleanup # None
    /\ last_cleanup[1].cleaned_count = 1
    /\ \E d, e \in CallIds :
          /\ calls[d].investigation_id # None
          /\ calls[d].investigation_id[1] \notin DOMAIN active_investigations
          /\ calls[e].pc = "done"
          /\ calls[e].investigation_id[1] \in DOMAIN active_investigations
          /\ calls[e].investigation_id # calls[d].investigation_id
          /\ active_investigations[calls[e].investigation_id[1]].status = "completed"
          /\ active_investigations[calls[e].investigation_id[1]].results # <<>>

\* C26: the id a call of comprehensive_discovery creates is not the id of an
\* entry of the registry, so registering it overwrites no entry.
C26_NewIdIsFresh ==
    [][\A d \in CallIds :
          (calls[d].pc = "idle" /\ calls'[d].pc # "idle") =>
              calls'[d].investigation_id[1] \notin DOMAIN active_investigations]_vars

\* C27: no call of comprehensive_discovery fails at its final update because
\* its entry is missing.
C27_EntryPresentAtFinalUpdate ==
    \A d \in CallIds : calls[d].error # Some("KeyError")

----------------------------------------------------------------------------
(* Termination of an investigation, checked under SpecCompletion (C28).    *)

\* The entry the call d registered has a terminal status
Settled(d) ==
    /\ calls[d].investigation_id # None
    /\ calls[d].investigation_id[1] \in DOMAIN active_investigations
    /\ active_investigations[calls[d].investigation_id[1]].status \in TerminalStatuses

\* C28: every investigation that was registered eventually has a terminal
\* status, when every collector eventually returns or raises.
C28_EveryInvestigationSettles ==
    \A d \in OrchestrationCalls : (calls[d].pc # "idle") ~> Settled(d)

----------------------------------------------------------------------------
(* ProxyManager (src/utils/proxy_manager.py), enabled, with two proxies    *)
(* that carry no credentials, so that _format_proxy_url gives the url.     *)
(* Every proxy record has one field more than ProxyInfo: failed_marks, the *)
(* number of calls of mark_proxy_failed for it since it last succeeded or  *)
(* the statistics were reset, counted up to max_failures.                  *)

max_failures == 3

\* The counters of a proxy stop here
MaxFailureCount == 4
MaxSuccessCount == 1

ProxyUrls == <<"http://p1", "http://p2">>

RotationStrategies == {"round_robin", "random", "performance"}

\* ProxyInfo(url, protocol)
ProxyInfo(url) ==
    [url |-> url, success_count |-> 0, failure_count |-> 0, response_time |-> 0,
     is_working |-> TRUE, failed_marks |-> 0]

\* What _test_proxy returns: (is_working, response_time)
TestOutcomes == {<<FALSE, 0>>, <<TRUE, 1>>, <<TRUE, 2>>}

\* The position of the first proxy with this url, 0 when there is none
first_with_url(proxy_url) ==
    IF \E i \in 1..Len(proxies) : proxies[i].url = proxy_url
    THEN SetMin({i \in 1..Len(proxies) : proxies[i].url = proxy_url})
    ELSE 0

\* _perform_health_check: the proxies and the working list after the tests
_perform_health_check(tests) ==
    [proxies |->
        [i \in 1..Len(proxies) |->
            IF tests[i][1]
            THEN [proxies[i] EXCEPT !.success_count = @ + 1,
                                    !.response_time = tests[i][2],
                                    !.is_working = proxies[i].failure_count < max_failures,
                                    !.failed_marks = 0]
            ELSE [proxies[i] EXCEPT !.failure_count = @ + 1,
                                    !.is_working = FALSE]] \o <<>>,
     working_proxies |-> SelectSeq([i \in 1..Len(proxies) |-> i] \o <<>>,
                                   LAMBDA i : tests[i][1])]

\* The key of the performance strategy orders q strictly before r: a
\* greater success rate, or the same rate and a shorter response time
Outperforms(q, r) ==
    LET tried(x) == IF x.success_count + x.failure_count > 1
                    THEN x.success_count + x.failure_count ELSE 1
    IN  \/ q.success_count * tried(r) > r.success_count * tried(q)
        \/ /\ q.success_count * tried(r) = r.success_count * tried(q)
           /\ q.response_time < r.response_time

\* get_proxy.  tests is None when no health check is due and else holds the
\* outcome of _test_proxy for every proxy; pick is the position
\* random.choice takes.
get_proxy(tests, pick) ==
    /\ proxies # <<>>
    /\ last_health_check = 0 => tests # None
    /\ tests # None =>
          \A i \in 1..Len(proxies) :
              IF tests[1][i][1] THEN proxies[i].success_count < MaxSuccessCount
                                ELSE proxies[i].failure_count < MaxFailureCount
    /\ LET checked == IF tests = None
                      THEN [proxies |-> proxies, working_proxies |-> working_proxies]
                      ELSE _perform_health_check(tests[1])
           available_proxies ==
               IF checked.working_proxies # <<>>
               THEN checked.working_proxies
               ELSE [i \in 1..Len(proxies) |-> i] \o <<>>
           n == Len(available_proxies)
           best == CHOOSE k \in 1..n :
                       /\ \A j \in 1..n : ~Outperforms(checked.proxies[available_proxies[j]],
                                                       checked.proxies[available_proxies[k]])
                       /\ \A j \in 1..(k - 1) :
                              Outperforms(checked.proxies[available_proxies[k]],
                                          checked.proxies[available_proxies[j]])
           position == CASE rotation_strategy = "round_robin" -> (current_proxy_index % n) + 1
                         [] rotation_strategy = "random" -> pick
                         [] rotation_strategy = "performance" -> best
       IN  /\ pick \in 1..n
           /\ rotation_strategy # "random" => pick = 1
           /\ proxies' = checked.proxies
           /\ working_proxies' = checked.working_proxies
           /\ last_health_check' = IF tests = None THEN last_health_check ELSE 1
           /\ current_proxy_index' =
                  IF rotation_strategy = "round_robin"
                  THEN (current_proxy_index + 1) % n ELSE current_proxy_index
           /\ got_proxy' = Some(Some(checked.proxies[available_proxies[position]].url))
    /\ UNCHANGED <<rotation_strategy, now, engine_vars, rank_vars, plan_vars, analyzer_vars,
                   limiter_vars, intelligence_vars, cleanup_vars>>

\* mark_proxy_failed
mark_proxy_failed(proxy_url) ==
    LET i == first_with_url(proxy_url)
    IN  /\ i # 0
        /\ proxies[i].failure_count < MaxFailureCount
        /\ proxies' = [proxies EXCEPT
               ![i].failure_count = @ + 1,
               ![i].is_working = IF proxies[i].failure_count + 1 >= max_failures
                                 THEN FALSE ELSE @,
               ![i].failed_marks = Min2(@ + 1, max_failures)]
        /\ working_proxies' =
               IF proxies[i].failure_count + 1 >= max_failures
               THEN SelectSeq(working_proxies, LAMBDA w : w # i)
               ELSE working_proxies
        /\ got_proxy' = None
        /\ UNCHANGED <<current_proxy_index, rotation_strategy, last_health_check, now,
                       engine_vars, rank_vars, plan_vars, analyzer_vars, limiter_vars,
                       intelligence_vars, cleanup_vars>>

\* mark_proxy_success
mark_proxy_success(proxy_url) ==
    LET i == first_with_url(proxy_url)
    IN  /\ i # 0
        /\ proxies[i].success_count < MaxSuccessCount
        /\ proxies' = [proxies EXCEPT ![i].success_count = @ + 1,
                                      ![i].is_working = TRUE,
                                      ![i].failed_marks = 0]
        /\ working_proxies' =
               IF \E k \in 1..Len(working_proxies) : working_proxies[k] = i
               THEN working_proxies ELSE Append(working_proxies, i)
        /\ got_proxy' = None
        /\ UNCHANGED <<current_proxy_index, rotation_strategy, last_health_check, now,
                       engine_vars, rank_vars, plan_vars, analyzer_vars, limiter_vars,
                       intelligence_vars, cleanup_vars>>

\* reset_proxy_statistics
reset_proxy_statistics ==
    /\ proxies' = [i \in 1..Len(proxies) |-> ProxyInfo(proxies[i].url)] \o <<>>
    /\ working_proxies' = [i \in 1..Len(proxies) |-> i] \o <<>>
    /\ got_proxy' = None
    /\ UNCHANGED <<current_proxy_index, rotation_strategy, last_health_check, now,
                   engine_vars, rank_vars, plan_vars, analyzer_vars, limiter_vars,
                   intelligence_vars, cleanup_vars>>

\* The manager after __init__, configure(enabled=True) and add_proxy for
\* every url, with any of the rotation strategies
ProxyInit ==
    /\ proxies = [i \in 1..Len(ProxyUrls) |-> ProxyInfo(ProxyUrls[i])] \o <<>>
    /\ working_proxies = <<>>
    /\ current_proxy_index = 0
    /\ rotation_strategy \in RotationStrategies
    /\ last_health_check = 0
    /\ got_proxy = None
    /\ now = 0
    /\ active_investigations = <<>>
    /\ calls = <<>>
    /\ raw_results = <<>>
    /\ rank_strategy = None
    /\ ranked = <<>>
    /\ reranked = <<>>
    /\ rank_pc = "off"
    /\ PlanOff /\ AnalyzerOff /\ LimiterOff /\ IntelligenceOff /\ CleanupOff

ProxyNext ==
    \/ \E tests \in {None} \cup {Some(t) : t \in [1..Len(proxies) -> TestOutcomes]} :
          \E pick \in 1..Len(proxies) : get_proxy(tests, pick)
    \/ \E k \in 1..Len(ProxyUrls) : mark_proxy_failed(ProxyUrls[k])
    \/ \E k \in 1..Len(ProxyUrls) : mark_proxy_success(ProxyUrls[k])
    \/ reset_proxy_statistics

SpecProxy == ProxyInit /\ [][ProxyNext]_vars

\* C30: a proxy that mark_proxy_failed was applied to max_failures times,
\* with no success or reset in between, is not what get_proxy returns, and
\* when no working proxy is left beside it get_proxy returns no proxy.
C30_FailedProxyNotReturned ==
    got_proxy # None =>
        \A i \in 1..Len(proxies) :
            proxies[i].failed_marks >= max_failures =>
                /\ got_proxy[1] # Some(proxies[i].url)
                /\ working_proxies = <<>> => got_proxy[1] = None

====
